---- MODULE Spec2Model ----
(***************************************************************************)
(* Verification model of the Asterisk <-> realtime-AI media relay:         *)
(* the RTP port pool (rtp.js), the per-call RTP sender / playback          *)
(* scheduler (rtp.js streamAudio), the AI WebSocket transport (openai.js,  *)
(* gemini.js) and the call-session lifecycle with its cleanup coordinator  *)
(* (asterisk.js).                                                          *)
(*                                                                         *)
(* JavaScript runs every handler to completion, so one action of the model *)
(* is one handler run from its entry (or from the await it resumes at) to  *)
(* its next await.                                                         *)
(*                                                                         *)
(* The specifications of the module:                                       *)
(*   SpecPort     the port pool used by several calls                      *)
(*   SpecSender   one sender closure (streamAudio) and its pacing timer    *)
(*   FairSender   SpecSender with the pacing timer firing                  *)
(*   SpecSenderIO SpecSender with the datagrams of the call's receiver     *)
(*   SpecBuffer   writeAudio calls on a sender                             *)
(*   Spec         one call's lifecycle: setup, AI connection, cleanup      *)
(*   FairSpec     Spec with timers firing and telephony requests returning *)
(*   SpecRecv     Spec with the receiver's datagrams                       *)
(*   SpecDrain    one waitForBufferEmpty call (openai.js, gemini.js)       *)
(*   SpecConv     the mu-law tables of audio-converter.js                  *)
(*   SpecResample resample8to16 and resample16to8 on one buffer            *)
(*   SpecEnd      SpecSenderIO's sender ended by the call's teardown       *)
(*   SpecPlayback sendAudioChunk, sendRtpPacket and writeAudio on a sender *)
(*   SpecReconnect the sender across the AI connection's retries           *)
(*   SpecCallBuffer the sender's audio buffer across the retries           *)
(*   SpecRelay    setup and receiver of a call, for either provider        *)
(*   SpecTimers   Spec with the call-duration timer firing                 *)
(*   SpecExt      the call's ExternalMedia channel entering the app        *)
(*   FairMsg      the message queue of a connected call and its interval   *)
(***************************************************************************)
EXTENDS Integers, Sequences, FiniteSets, TLC

VARIABLES
  \* ---- rtp.js module state
  usedRtpPorts,   \* const usedRtpPorts = new Set()
  \* ---- port-pool specification: the calls sharing the pool
  pSess,          \* per call: how it stands with respect to its RTP port
  \* ---- state.js
  inSipMap,       \* sipMap.has(channelId) for the call looked at
  \* ---- one streamAudio closure (rtp.js), the call's sender
  rtpSequence,    \* let rtpSequence
  rtpTimestamp,   \* let rtpTimestamp
  packetQueue,    \* let packetQueue: the frames {seq, timestamp} waiting
  intervalId,     \* let intervalId: TRUE while the 20ms interval is set
  isSocketClosed, \* let isSocketClosed
  totalPacketsSent, \* let totalPacketsSent
  sendCbs,        \* rtpSender.send callbacks still to come
  sent,           \* the frames handed to rtpSender.send, in order (the wire)
  finished,       \* number of rtpEvents.emit('audioFinished', channelId)
  discarded,      \* timestamps of the frames stopPlayback dropped
  lastCall,       \* the sender operation that ran last
  senderSock,     \* the sender's UDP socket: "none", "open", "closed"
  finishOwed,     \* stopPlayback cut a playback short and no 'audioFinished'
                  \* has been emitted since
  audioBuffer,    \* let audioBuffer: the lengths of the chunks it is made of
  endOwed,        \* endStream cut a playback short and no 'audioFinished'
                  \* has been emitted since
  senderCloses,   \* close() calls made on the socket of the latest sender
  rtpSsrc,        \* const rtpSsrc of the latest sender
  prev,           \* earlier senders of the call whose interval is still set:
                  \* their rtpSsrc and packetQueue
  silenced,       \* per sendAudioChunk call that went on to sendRtpPacket:
                  \* whether it prepended silence
  \* ---- the call's receiver (rtp.js startRTPReceiver) and channelData.rtpSource
  rtpSource,      \* channelData.rtpSource: "none" or the address recorded
  received,       \* the datagrams the receiver's message handler has run for
  forwarded,      \* the datagrams (numbers in received) sent on channelData.ws
  \* ---- one waitForBufferEmpty call
  w,              \* its locals, its position and the time since its start
  \* ---- audio-converter.js
  cv,             \* a value put through the mu-law tables
  \* ---- one call: StasisStart handler, channelData, AI connection
  setup,          \* where the StasisStart handler of the call stands
  wsClosed,       \* channelData.wsClosed
  cdWs,           \* channelData.ws: "none", "cur" (the latest WebSocket), "old"
  hasHandler,     \* channelData.streamHandler is set
  wsState,        \* the latest WebSocket (closure variable ws)
  oldClose,       \* earlier WebSockets whose 'close' event is still to come
  retryCount,     \* let retryCount
  backoff,        \* the 1s reconnect timer is pending
  msgTick,        \* the 25ms message interval is set
  msgQueue,       \* let messageQueue
  orphans,        \* open sender sockets no streamHandler refers to any more
  rtpSendersHas,  \* rtpSenders.has(channelId)
  rtpReceiversHas, \* rtpReceivers.has(channelId)
  recvCb,         \* the receiver's close callback is still to come
  rtpPort,        \* channelData.rtpPort (0 before setup)
  provider,       \* config.AI_PROVIDER: "openai" or "gemini"
  setupComplete,  \* let setupComplete (gemini.js)
  acked,          \* the latest WebSocket has delivered the provider's answer to
                  \* the configuration message ('session.updated',
                  \* setupComplete)
  callTimer,      \* the timer of channelData.callTimeoutId is pending
  extMapHas,      \* extMap has the entry of the call's ExternalMedia channel
  ext,            \* the StasisStart handler run for the ExternalMedia channel:
                  \* where it stands, and its attempts
  steps,          \* the steps of the call's setup taken so far, in their order
  mq,             \* messageQueue with the arrival numbers of its messages, and
                  \* what the message interval has done with them
  \* ---- cleanupChannel
  ticket,         \* cleanupPromises.get(channelId): the caller whose teardown it is
  wsTicket,       \* cleanupPromises.get('ws_' + channelId): whose resolve it is
  td,             \* per caller: where the teardown it started stands
  cl,             \* per caller: where its cleanupChannel call stands
  joined,         \* per caller: the teardown whose promise it awaited
  threw           \* per caller: its teardown ended in the outer catch

portVars == <<usedRtpPorts, pSess>>

senderVars == <<rtpSequence, rtpTimestamp, packetQueue, intervalId,
                isSocketClosed, totalPacketsSent, sendCbs, sent, finished,
                discarded, lastCall, senderSock, finishOwed, audioBuffer,
                endOwed, senderCloses, rtpSsrc, prev, silenced>>

\* What of a sender only its construction, endStream, the teardown and
\* sendAudioChunk write.
closureAux == <<senderCloses, rtpSsrc, prev, silenced>>

recvVars == <<rtpSource, received, forwarded>>

\* What only the actions of the receiver, of waitForBufferEmpty and of the
\* converter write.
auxVars == <<recvVars, w, cv>>

\* What the handlers of the call, of its AI connection and of its teardown
\* write, and the provider.
callVars == <<setup, wsClosed, cdWs, hasHandler, wsState, oldClose, retryCount,
              backoff, msgTick, msgQueue, orphans, rtpSendersHas,
              rtpReceiversHas, recvCb, rtpPort, provider, setupComplete,
              acked, callTimer, extMapHas, steps, ticket, wsTicket,
              td, cl, joined, threw>>

lifeVars == <<callVars, ext, mq>>

\* Everything but the port pool and its calls.
nonPortVars == <<inSipMap, senderVars, lifeVars, auxVars>>

vars == <<usedRtpPorts, pSess, inSipMap, rtpSequence, rtpTimestamp,
          packetQueue, intervalId, isSocketClosed, totalPacketsSent, sendCbs,
          sent, finished, discarded, lastCall, senderSock, finishOwed,
          audioBuffer, endOwed, senderCloses, rtpSsrc, prev, silenced,
          rtpSource, received, forwarded, w, cv, setup, wsClosed,
          cdWs, hasHandler, wsState, oldClose, retryCount, backoff, msgTick,
          msgQueue, orphans, rtpSendersHas, rtpReceiversHas, recvCb, rtpPort,
          provider, setupComplete, acked, callTimer, extMapHas, ext, steps, mq,
          ticket, wsTicket, td, cl, joined, threw>>

(***************************************************************************)
(* Port pool (rtp.js getNextRtpPort / releaseRtpPort)                      *)
(***************************************************************************)
RTP_PORT_START == 12000

MAX_CONCURRENT_CALLS == 2

MaxPortCalls == 4

PortCalls == 1..MaxPortCalls

MinPort(S) == CHOOSE p \in S : \A q \in S : p <= q

\* while (usedRtpPorts.has(port)) port += 2;
RECURSIVE ScanPort(_, _)
ScanPort_step1(port, used) ==
  IF port \in used THEN ScanPort(port + 1, used) ELSE port

ScanPort(port, used) ==
  IF port \in used THEN ScanPort(port + 2, used) ELSE port

\* The result of getNextRtpPort on the held set `used`: the port returned, the
\* held set afterwards, and whether the "reusing oldest port" branch ran.
getNextRtpPort_reuseMax(used) ==
  LET port == ScanPort(RTP_PORT_START, used) IN
  IF Cardinality(used) >= MAX_CONCURRENT_CALLS
    THEN LET top == CHOOSE p \in used : \A q \in used : q <= p
         IN [port |-> top, used |-> used \ {top}, forced |-> TRUE]
    ELSE [port |-> port, used |-> used \cup {port}, forced |-> FALSE]

getNextRtpPort(used) ==
  LET port == ScanPort(RTP_PORT_START, used) IN
  IF Cardinality(used) >= MAX_CONCURRENT_CALLS
    THEN LET oldestPort == MinPort(used)
         IN [port |-> oldestPort, used |-> used \ {oldestPort}, forced |-> TRUE]
    ELSE [port |-> port, used |-> used \cup {port}, forced |-> FALSE]

releaseRtpPort(used, port) == used \ {port}

\* A call of the port-pool specification:
\*   st      "none" (not started), "live" (registered in sipMap, receiver bound),
\*           "gone" (cleanup has run)
\*   port    channelData.rtpPort (0 before setup)
\*   forced  its getNextRtpPort took the reuse branch
\*   held    it got the port and has not called releaseRtpPort yet
\*   cb      its receiver's close callback is still to come
NoSess == [st |-> "none", port |-> 0, forced |-> FALSE, held |-> FALSE, cb |-> FALSE]

PortInit ==
  /\ usedRtpPorts = {}
  /\ pSess = [c \in PortCalls |-> NoSess]

\* StasisStart of a SIP channel: const port = getNextRtpPort();
\* startRTPReceiver(channel.id, port); sipMap.set(channel.id, {... rtpPort: port}).
PortCallStart(c) ==
  /\ pSess[c].st = "none"
  /\ LET r == getNextRtpPort(usedRtpPorts) IN
       /\ usedRtpPorts' = r.used
       /\ pSess' = [pSess EXCEPT ![c] =
            [st |-> "live", port |-> r.port, forced |-> r.forced,
             held |-> TRUE, cb |-> FALSE]]
  /\ UNCHANGED nonPortVars

\* cleanupChannel reaching the receiver step with the close callback coming
\* within the wait: releaseRtpPort(channelData.rtpPort).
PortCleanupRelease(c) ==
  /\ pSess[c].st = "live"
  /\ usedRtpPorts' = releaseRtpPort(usedRtpPorts, pSess[c].port)
  /\ pSess' = [pSess EXCEPT ![c].st = "gone", ![c].held = FALSE]
  /\ UNCHANGED nonPortVars

\* cleanupChannel ending without the release: the 1s timer won the race
\* (late = TRUE, the callback is still to come) or an earlier step threw and
\* the receiver was never closed (late = FALSE).
PortCleanupNoRelease(c, late) ==
  /\ pSess[c].st = "live"
  /\ pSess' = [pSess EXCEPT ![c].st = "gone", ![c].cb = late]
  /\ UNCHANGED <<usedRtpPorts, nonPortVars>>

\* The receiver's close callback after the cleanup has gone on without it.
PortLateClose(c) ==
  /\ pSess[c].st = "gone"
  /\ pSess[c].cb
  /\ usedRtpPorts' = releaseRtpPort(usedRtpPorts, pSess[c].port)
  /\ pSess' = [pSess EXCEPT ![c].cb = FALSE, ![c].held = FALSE]
  /\ UNCHANGED nonPortVars


(***************************************************************************)
(* RTP sender / playback scheduler: one streamAudio closure (rtp.js)       *)
(***************************************************************************)
samplesPerPacket == 160

\* Frames a call of the model may enqueue in all.
MaxFrames == 4

\* Buffer lengths (bytes) handed to sendRtpPacket: a partial frame, one frame,
\* two frames.
PacketBufferLens == {100, 160, 320}

\* rtpSequence = Math.floor(Math.random() * 65535): the two ends of the range.
SeqStarts == {0, 65534}

\* rtpSsrc = Math.floor(Math.random() * 4294967295): two of the values. A
\* draw may give the value an earlier draw gave.
Ssrcs == {1, 2}

\* The draw of the first sender of a call.
FirstSsrc == 1

NoCall == "none"

SenderInit ==
  /\ rtpSequence \in SeqStarts
  /\ rtpTimestamp = 0
  /\ packetQueue = << >>
  /\ intervalId = FALSE
  /\ isSocketClosed = FALSE
  /\ totalPacketsSent = 0
  /\ sendCbs = 0
  /\ sent = << >>
  /\ finished = 0
  /\ discarded = {}
  /\ lastCall = NoCall
  /\ senderSock = "open"
  /\ finishOwed = FALSE
  /\ audioBuffer = << >>
  /\ endOwed = FALSE
  /\ senderCloses = 0
  /\ rtpSsrc = FirstSsrc
  /\ prev = << >>
  /\ silenced = << >>

\* No sender has been constructed.
SenderNone ==
  /\ rtpSequence = 0
  /\ rtpTimestamp = 0
  /\ packetQueue = << >>
  /\ intervalId = FALSE
  /\ isSocketClosed = FALSE
  /\ totalPacketsSent = 0
  /\ sendCbs = 0
  /\ sent = << >>
  /\ finished = 0
  /\ discarded = {}
  /\ lastCall = NoCall
  /\ senderSock = "none"
  /\ finishOwed = FALSE
  /\ audioBuffer = << >>
  /\ endOwed = FALSE
  /\ senderCloses = 0
  /\ rtpSsrc = 0
  /\ prev = << >>
  /\ silenced = << >>

\* The while loop of sendRtpPacket from `offset` on, over a buffer of `len`
\* bytes: one frame {seq, timestamp} pushed per 160 bytes or part of it.
RECURSIVE SliceFrames(_, _, _)
SliceFrames_mod65535(st, offset, len) ==
  IF offset < len
    THEN SliceFrames(
           [q   |-> Append(st.q, [seq |-> st.seq, timestamp |-> st.ts]),
            seq |-> (st.seq + 1) % 65535,
            ts  |-> st.ts + samplesPerPacket],
           offset + samplesPerPacket, len)
    ELSE st

SliceFrames(st, offset, len) ==
  IF offset < len
    THEN SliceFrames(
           [q   |-> Append(st.q, [seq |-> st.seq, timestamp |-> st.ts]),
            seq |-> (st.seq + 1) % 65536,
            ts  |-> st.ts + samplesPerPacket],
           offset + samplesPerPacket, len)
    ELSE st

\* Number of frames a buffer of len bytes is cut into.
FramesOf(len) == (len + samplesPerPacket - 1) \div samplesPerPacket

\* sendRtpPacket(packetBuffer), packetBuffer.length = len.
SendRtpPacket(len) ==
  /\ rtpTimestamp + FramesOf(len) * samplesPerPacket <= MaxFrames * samplesPerPacket
  /\ lastCall' = "sendRtpPacket"
  /\ IF ~inSipMap \/ isSocketClosed
       THEN UNCHANGED <<rtpSequence, rtpTimestamp, packetQueue, intervalId>>
       ELSE LET r == SliceFrames([q |-> packetQueue, seq |-> rtpSequence,
                                  ts |-> rtpTimestamp], 0, len)
            IN /\ packetQueue' = r.q
               /\ rtpSequence' = r.seq
               /\ rtpTimestamp' = r.ts
               \* if (!intervalId) processPacketQueue();
               /\ intervalId' = TRUE
  /\ UNCHANGED <<isSocketClosed, totalPacketsSent, sendCbs, sent, finished,
                 discarded, senderSock, finishOwed, audioBuffer, endOwed,
                 closureAux, inSipMap, portVars, lifeVars, auxVars>>

\* config.SILENCE_PADDING_MS (process.env.SILENCE_PADDING_MS): a call
\* configured for one frame of leading silence.
SILENCE_PADDING_MS == 20

\* silencePackets * 160: the bytes of silence sendAudioChunk prepends.
SilenceBytes == ((SILENCE_PADDING_MS + 19) \div 20) * samplesPerPacket

\* Frames a sender of the model may have enqueued in all when sendAudioChunk
\* has run.
MaxChunkFrames == 5

\* Lengths (bytes) of convertGeminiToAsterisk(audioData) for the chunks handed
\* to sendAudioChunk.
ChunkLens == {100, 160}

\* sendAudioChunk(audioData) with convertGeminiToAsterisk(audioData).length =
\* len: silence is prepended while totalPacketsSent is 0, then sendRtpPacket
\* runs on the whole, its test being the one just passed.
SendAudioChunk(len) ==
  LET padded == (totalPacketsSent = 0)
      total == IF padded THEN SilenceBytes + len ELSE len
  IN
  /\ rtpTimestamp + FramesOf(total) * samplesPerPacket
       <= MaxChunkFrames * samplesPerPacket
  /\ lastCall' = "sendAudioChunk"
  /\ IF ~inSipMap \/ isSocketClosed
       THEN UNCHANGED <<rtpSequence, rtpTimestamp, packetQueue, intervalId,
                        silenced>>
       ELSE LET r == SliceFrames([q |-> packetQueue, seq |-> rtpSequence,
                                  ts |-> rtpTimestamp], 0, total)
            IN /\ packetQueue' = r.q
               /\ rtpSequence' = r.seq
               /\ rtpTimestamp' = r.ts
               /\ intervalId' = TRUE
               /\ silenced' = Append(silenced, padded)
  /\ UNCHANGED <<isSocketClosed, totalPacketsSent, sendCbs, sent, finished,
                 discarded, senderSock, finishOwed, audioBuffer, endOwed,
                 senderCloses, rtpSsrc, prev, inSipMap, portVars, lifeVars,
                 auxVars>>

\* What stopPlayback leaves of the queue: packetQueue = [].
stopPlaybackQueue_keep(q) == q

stopPlaybackQueue(q) == << >>

\* stopPlayback().
StopPlayback ==
  /\ lastCall' = "stopPlayback"
  /\ intervalId' = FALSE
  /\ packetQueue' = stopPlaybackQueue(packetQueue)
  /\ discarded' = discarded \cup
                    {packetQueue[i].timestamp : i \in 1..Len(packetQueue)}
  /\ finishOwed' = (finishOwed \/ (intervalId /\ packetQueue # << >>))
  /\ UNCHANGED <<rtpSequence, rtpTimestamp, isSocketClosed, totalPacketsSent,
                 sendCbs, sent, finished, senderSock, audioBuffer, endOwed,
                 closureAux, inSipMap, portVars, lifeVars, auxVars>>

\* The destination streamAudio was given when the sender was made:
\* channelData.rtpSource || { address: '127.0.0.1', port: 12000 }.
DefaultDest == "127.0.0.1:12000"

\* Remote addresses datagrams come from.
Addrs == {"a", "b"}

\* sendPort / sendAddress of a tick (lines 265-267); the tick has found the
\* call in sipMap, so channelData is the session.
SendTarget_configured(learned) == DefaultDest

SendTarget(learned) == IF learned # "none" THEN learned ELSE DefaultDest

\* Variant taking the frame with packetQueue.pop() instead of shift().
PacingTick_sendLast ==
  /\ intervalId
  /\ lastCall' = "tick"
  /\ IF packetQueue = << >> \/ ~inSipMap \/ isSocketClosed
       THEN \* clearInterval; rtpEvents.emit('audioFinished', channelId)
            /\ intervalId' = FALSE
            /\ finished' = finished + 1
            /\ finishOwed' = FALSE
            /\ endOwed' = FALSE
            /\ UNCHANGED <<packetQueue, sent, sendCbs>>
       ELSE \* packetQueue.shift(); rtpSender.send(...)
            /\ packetQueue' = SubSeq(packetQueue, 1, Len(packetQueue) - 1)
            /\ sent' = Append(sent, [seq |-> packetQueue[Len(packetQueue)].seq,
                                     timestamp |-> packetQueue[Len(packetQueue)].timestamp,
                                     to |-> SendTarget(rtpSource),
                                     learned |-> rtpSource,
                                     ssrc |-> rtpSsrc])
            /\ sendCbs' = sendCbs + 1
            /\ UNCHANGED <<intervalId, finished, finishOwed, endOwed>>
  /\ UNCHANGED <<rtpSequence, rtpTimestamp, isSocketClosed, totalPacketsSent,
                 discarded, senderSock, audioBuffer, closureAux, inSipMap,
                 portVars, lifeVars, auxVars>>

\* One run of the setInterval callback of processPacketQueue.
PacingTick ==
  /\ intervalId
  /\ lastCall' = "tick"
  /\ IF packetQueue = << >> \/ ~inSipMap \/ isSocketClosed
       THEN \* clearInterval; rtpEvents.emit('audioFinished', channelId)
            /\ intervalId' = FALSE
            /\ finished' = finished + 1
            /\ finishOwed' = FALSE
            /\ endOwed' = FALSE
            /\ UNCHANGED <<packetQueue, sent, sendCbs>>
       ELSE \* packetQueue.shift(); rtpSender.send(...)
            /\ packetQueue' = Tail(packetQueue)
            /\ sent' = Append(sent, [seq |-> Head(packetQueue).seq,
                                     timestamp |-> Head(packetQueue).timestamp,
                                     to |-> SendTarget(rtpSource),
                                     learned |-> rtpSource,
                                     ssrc |-> rtpSsrc])
            /\ sendCbs' = sendCbs + 1
            /\ UNCHANGED <<intervalId, finished, finishOwed, endOwed>>
  /\ UNCHANGED <<rtpSequence, rtpTimestamp, isSocketClosed, totalPacketsSent,
                 discarded, senderSock, audioBuffer, closureAux, inSipMap,
                 portVars, lifeVars, auxVars>>

\* prev without its i-th element.
DropAt(q, i) == SubSeq(q, 1, i - 1) \o SubSeq(q, i + 1, Len(q))

\* One run of the interval callback of the i-th earlier sender whose interval
\* is still set. Its endStream was not called, and nothing enqueues on it any
\* more.
OldTick(i) ==
  /\ i \in 1..Len(prev)
  /\ lastCall' = "oldTick"
  /\ IF prev[i].packetQueue = << >> \/ ~inSipMap
       THEN \* clearInterval; rtpEvents.emit('audioFinished', channelId)
            /\ prev' = DropAt(prev, i)
            /\ finished' = finished + 1
            /\ finishOwed' = FALSE
            /\ endOwed' = FALSE
            /\ UNCHANGED sent
       ELSE \* packetQueue.shift(); rtpSender.send(...)
            /\ prev' = [prev EXCEPT ![i].packetQueue = Tail(@)]
            /\ sent' = Append(sent, [seq |-> Head(prev[i].packetQueue).seq,
                                     timestamp |-> Head(prev[i].packetQueue).timestamp,
                                     to |-> SendTarget(rtpSource),
                                     learned |-> rtpSource,
                                     ssrc |-> prev[i].rtpSsrc])
            /\ UNCHANGED <<finished, finishOwed, endOwed>>
  /\ UNCHANGED <<rtpSequence, rtpTimestamp, packetQueue, intervalId,
                 isSocketClosed, totalPacketsSent, sendCbs, discarded,
                 senderSock, audioBuffer, senderCloses, rtpSsrc, silenced,
                 inSipMap, portVars, lifeVars, auxVars>>

\* The callback of rtpSender.send: err, or totalPacketsSent++.
SendCallback(err) ==
  /\ sendCbs > 0
  /\ sendCbs' = sendCbs - 1
  /\ totalPacketsSent' = IF err THEN totalPacketsSent ELSE totalPacketsSent + 1
  /\ UNCHANGED <<rtpSequence, rtpTimestamp, packetQueue, intervalId,
                 isSocketClosed, sent, finished, discarded, lastCall,
                 senderSock, finishOwed, audioBuffer, endOwed, closureAux,
                 inSipMap, portVars, lifeVars, auxVars>>

\* Variant without the isSocketClosed test of line 311.
endStream_noFlagTest(s) ==
  [s EXCEPT !.intervalId = FALSE,
            !.isSocketClosed = TRUE,
            !.senderSock = "closed",
            !.senderCloses = @ + 1,
            !.endOwed = @ \/ (s.intervalId /\ s.packetQueue # << >>)]

\* endStream() on a record s of the closure: the interval is cleared and, if
\* the socket is not marked closed, it is marked and rtpSender.close() is
\* called.
endStream(s) ==
  [s EXCEPT !.intervalId = FALSE,
            !.isSocketClosed = TRUE,
            !.senderSock = IF s.isSocketClosed THEN @ ELSE "closed",
            !.senderCloses = IF s.isSocketClosed THEN @ ELSE @ + 1,
            !.endOwed = @ \/ (s.intervalId /\ s.packetQueue # << >>)]

\* endStream().
EndStream ==
  /\ lastCall' = "endStream"
  /\ LET r == endStream([intervalId |-> intervalId,
                         isSocketClosed |-> isSocketClosed,
                         senderSock |-> senderSock,
                         senderCloses |-> senderCloses,
                         packetQueue |-> packetQueue,
                         endOwed |-> endOwed])
     IN /\ intervalId' = r.intervalId
        /\ isSocketClosed' = r.isSocketClosed
        /\ senderSock' = r.senderSock
        /\ senderCloses' = r.senderCloses
        /\ endOwed' = r.endOwed
  /\ UNCHANGED <<rtpSequence, rtpTimestamp, packetQueue, totalPacketsSent,
                 sendCbs, sent, finished, discarded, finishOwed, audioBuffer,
                 rtpSsrc, prev, silenced, inSipMap, portVars, lifeVars,
                 auxVars>>

\* cleanupChannel: sipMap.delete(channelId).
SenderSessionRemoved ==
  /\ inSipMap
  /\ inSipMap' = FALSE
  /\ UNCHANGED <<senderVars, portVars, lifeVars, auxVars>>

\* handleClose / open handler / audio delta: sipMap.set(channelId, channelData).
SenderSessionSet ==
  /\ ~inSipMap
  /\ inSipMap' = TRUE
  /\ UNCHANGED <<senderVars, portVars, lifeVars, auxVars>>

\* const maxBufferSize = 640.
maxBufferSize == 640

\* Chunk lengths (bytes) handed to writeAudio.
WriteLens == {0, 80, 160, 320, 640}

\* audioBuffer is kept as the chunks concatenated into it: how many bytes of
\* a chunk went in (len) and how long the chunk was (of).
RECURSIVE BufLen(_)
BufLen(buf) == IF buf = << >> THEN 0 ELSE Head(buf).len + BufLen(Tail(buf))

\* audioBuffer after writeAudio(data), data.length = len, silent = every byte
\* of data is 0x7F.
writeAudio_partial(buf, len, silent) ==
  LET freeSpace == maxBufferSize - BufLen(buf) IN
  IF len = 0 \/ silent THEN buf
  ELSE IF len > freeSpace
         THEN IF freeSpace > 0
                THEN Append(buf, [len |-> freeSpace, of |-> len]) ELSE buf
         ELSE Append(buf, [len |-> len, of |-> len])

writeAudio(buf, len, silent) ==
  LET freeSpace == maxBufferSize - BufLen(buf) IN
  IF len = 0 \/ silent THEN buf
  ELSE IF len > freeSpace THEN buf
  ELSE Append(buf, [len |-> len, of |-> len])

\* writeAudio(data); lastCall keeps what it returned.
WriteAudio(len, silent) ==
  /\ senderSock # "none"
  /\ audioBuffer' = writeAudio(audioBuffer, len, silent)
  /\ lastCall' = IF audioBuffer' = audioBuffer
                   THEN "writeAudio:false" ELSE "writeAudio:true"
  /\ UNCHANGED <<rtpSequence, rtpTimestamp, packetQueue, intervalId,
                 isSocketClosed, totalPacketsSent, sendCbs, sent, finished,
                 discarded, senderSock, finishOwed, endOwed, closureAux,
                 inSipMap, portVars, lifeVars, auxVars>>

NextSender ==
  \/ \E len \in PacketBufferLens : SendRtpPacket(len)
  \/ StopPlayback
  \/ PacingTick
  \/ \E err \in BOOLEAN : SendCallback(err)
  \/ EndStream
  \/ SenderSessionRemoved
  \/ SenderSessionSet


(***************************************************************************)
(* One call: StasisStart handler (asterisk.js), AI WebSocket (openai.js,   *)
(* gemini.js) and cleanupChannel (asterisk.js)                             *)
(***************************************************************************)
maxRetries == 3

\* Messages the model lets wait in messageQueue.
MaxMsgs == 1

\* The callers of cleanupChannel for the call: the catch of the StasisStart
\* handler, and the StasisEnd handler.
Callers == {"setup", "hangup"}

\* Library calls of a teardown that an input of the model makes throw.
Faults == {"none", "wsClose", "end", "senderClose", "recvClose"}

\* config.CALL_DURATION_LIMIT_SECONDS: 0 sets no timer.
CALL_DURATION_LIMIT_SECONDS == 1

\* No StasisStart has come for the call's ExternalMedia channel.
NoExt == [st |-> "none", attempts |-> 0]

\* No message has arrived.
NoMq == [queue |-> << >>, arrived |-> 0, done |-> << >>, batch |-> 0]

\* The steps of a setup that went through, in the order of the code:
\* getNextRtpPort (asterisk.js 186), startRTPReceiver (187), sipMap.set
\* (197), externalMedia returned (198), new WebSocket (openai.js 207), and
\* streamAudio in the open handler (openai.js 240).
SetupOrder ==
  <<"port", "receiver", "registered", "extMedia", "transport", "sender">>

\* The call before its StasisStart, in a process configured for provider p.
LifeInitFor(p) ==
  /\ setup = "none"
  /\ wsClosed = FALSE
  /\ cdWs = "none"
  /\ hasHandler = FALSE
  /\ wsState = "none"
  /\ oldClose = 0
  /\ retryCount = 0
  /\ backoff = FALSE
  /\ msgTick = FALSE
  /\ msgQueue = << >>
  /\ orphans = 0
  /\ rtpSendersHas = FALSE
  /\ rtpReceiversHas = FALSE
  /\ recvCb = FALSE
  /\ rtpPort = 0
  /\ provider = p
  /\ setupComplete = FALSE
  /\ acked = FALSE
  /\ callTimer = FALSE
  /\ extMapHas = FALSE
  /\ ext = NoExt
  /\ steps = << >>
  /\ mq = NoMq
  /\ ticket = "none"
  /\ wsTicket = "none"
  /\ td = [k \in Callers |-> "idle"]
  /\ cl = [k \in Callers |-> "idle"]
  /\ joined = [k \in Callers |-> "none"]
  /\ threw = [k \in Callers |-> FALSE]

\* AI_PROVIDER defaults to 'openai' (config.js 5).
LifeInit == LifeInitFor("openai")

\* The state a handler of the call reads and writes, as one record, so that
\* the parts of a handler compose in the order the code runs them.
Cur ==
  [inSipMap |-> inSipMap, usedRtpPorts |-> usedRtpPorts,
   intervalId |-> intervalId, isSocketClosed |-> isSocketClosed,
   senderSock |-> senderSock, setup |-> setup, wsClosed |-> wsClosed,
   cdWs |-> cdWs, hasHandler |-> hasHandler, wsState |-> wsState,
   oldClose |-> oldClose, retryCount |-> retryCount, backoff |-> backoff,
   msgTick |-> msgTick, msgQueue |-> msgQueue, orphans |-> orphans,
   rtpSendersHas |-> rtpSendersHas, rtpReceiversHas |-> rtpReceiversHas,
   recvCb |-> recvCb, rtpPort |-> rtpPort, ticket |-> ticket,
   wsTicket |-> wsTicket, td |-> td, cl |-> cl, joined |-> joined,
   threw |-> threw, rtpSequence |-> rtpSequence,
   rtpTimestamp |-> rtpTimestamp, packetQueue |-> packetQueue,
   totalPacketsSent |-> totalPacketsSent, sendCbs |-> sendCbs,
   audioBuffer |-> audioBuffer, endOwed |-> endOwed,
   senderCloses |-> senderCloses, rtpSsrc |-> rtpSsrc, prev |-> prev,
   setupComplete |-> setupComplete, acked |-> acked, callTimer |-> callTimer,
   extMapHas |-> extMapHas, steps |-> steps, mq |-> mq]

\* The handler ends in state r.
Put(r) ==
  /\ inSipMap' = r.inSipMap /\ usedRtpPorts' = r.usedRtpPorts
  /\ intervalId' = r.intervalId /\ isSocketClosed' = r.isSocketClosed
  /\ senderSock' = r.senderSock /\ setup' = r.setup
  /\ wsClosed' = r.wsClosed /\ cdWs' = r.cdWs /\ hasHandler' = r.hasHandler
  /\ wsState' = r.wsState /\ oldClose' = r.oldClose
  /\ retryCount' = r.retryCount /\ backoff' = r.backoff
  /\ msgTick' = r.msgTick /\ msgQueue' = r.msgQueue /\ orphans' = r.orphans
  /\ rtpSendersHas' = r.rtpSendersHas /\ rtpReceiversHas' = r.rtpReceiversHas
  /\ recvCb' = r.recvCb /\ rtpPort' = r.rtpPort /\ ticket' = r.ticket
  /\ wsTicket' = r.wsTicket /\ td' = r.td /\ cl' = r.cl /\ joined' = r.joined
  /\ threw' = r.threw
  /\ rtpSequence' = r.rtpSequence /\ rtpTimestamp' = r.rtpTimestamp
  /\ packetQueue' = r.packetQueue /\ totalPacketsSent' = r.totalPacketsSent
  /\ sendCbs' = r.sendCbs /\ audioBuffer' = r.audioBuffer
  /\ endOwed' = r.endOwed /\ senderCloses' = r.senderCloses
  /\ rtpSsrc' = r.rtpSsrc /\ prev' = r.prev
  /\ setupComplete' = r.setupComplete /\ acked' = r.acked
  /\ callTimer' = r.callTimer /\ extMapHas' = r.extMapHas
  /\ steps' = r.steps /\ mq' = r.mq
  /\ UNCHANGED <<pSess, sent, finished, discarded, lastCall, finishOwed,
                 silenced, provider, ext, auxVars>>

\* ws.close() on the latest WebSocket: an open one starts its closing
\* handshake, one still connecting has its handshake aborted (it emits
\* 'error', then 'close'), any other is left as it is.
closeLatestWs(s) ==
  [s EXCEPT !.wsState = IF @ = "open" THEN "closing"
                        ELSE IF @ = "connecting" THEN "doomed" ELSE @]

\* channelData.ws.close(): channelData.ws is the latest WebSocket or an
\* earlier one, which has errored and is closing by itself.
closeChannelWs(s) == IF s.cdWs = "cur" THEN closeLatestWs(s) ELSE s

\* ---------------------------------------------------------------- cleanup

\* finally { cleanupPromises.delete(channelId); cleanupPromises.delete(ws_) }
\* and the teardown's promise settling: its own caller and the callers that
\* await it go on.
tdFinally(s, k) ==
  [s EXCEPT !.ticket = "none",
            !.wsTicket = "none",
            !.td[k] = "done",
            !.cl = [j \in Callers |->
                      IF j = k \/ (s.cl[j] = "await" /\ s.joined[j] = k)
                        THEN "done" ELSE s.cl[j]]]

\* catch (e) { logger.error(...) } of the teardown, then its finally.
tdCatch(s, k) == tdFinally([s EXCEPT !.threw[k] = TRUE], k)

\* The receiver step (lines 122-135): receiver.close(cb) and the wait for the
\* callback or the 1s timer; receiver.isOpen is never set to false.
tdReceiver(s, k, fault) ==
  IF s.rtpReceiversHas
    THEN IF fault = "recvClose"
           THEN tdCatch(s, k)
           ELSE [s EXCEPT !.recvCb = TRUE, !.td[k] = "recvWait"]
    ELSE tdFinally(s, k)

\* The sender step (lines 109-121), then the receiver step. sender.isOpen is
\* the isOpen flag endStream clears on the latest sender socket.
tdSockets(s, k, fault) ==
  IF s.rtpSendersHas
    THEN IF ~s.isSocketClosed
           THEN IF fault = "senderClose" \/ s.senderSock = "closed"
                  THEN tdCatch([s EXCEPT !.senderCloses = @ + 1], k)
                  ELSE [s EXCEPT !.senderSock = "closed",
                                 !.senderCloses = @ + 1,
                                 !.td[k] = "senderWait"]
           ELSE tdReceiver([s EXCEPT !.rtpSendersHas = FALSE], k, fault)
    ELSE tdReceiver(s, k, fault)

\* The teardown from the end of the WebSocket wait to its next await (lines
\* 66-72): streamHandler.end(), then the telephony hangup is awaited.
\* rtpSender.close() inside end() throws on a socket that is closed already,
\* or when the input says so.
tdAfterWs(s, k, fault) ==
  IF s.hasHandler
    THEN IF ~s.isSocketClosed /\ (fault = "end" \/ s.senderSock = "closed")
           THEN tdCatch([endStream(s) EXCEPT !.senderSock = s.senderSock], k)
           ELSE [endStream(s) EXCEPT !.td[k] = "hangupWait"]
    ELSE [s EXCEPT !.td[k] = "hangupWait"]

\* The synchronous first part of a new teardown (lines 41-61), run inside the
\* cleanupChannel call that creates it: sipMap.delete, clearTimeout of the
\* call-duration timer, and the WebSocket.
tdBegin(s, k, fault) ==
  LET s1 == [s EXCEPT !.inSipMap = FALSE, !.cl[k] = "own",
                      !.callTimer = FALSE] IN
  IF ~s1.wsClosed
    THEN IF s1.cdWs # "none" /\ fault = "wsClose"
           THEN tdCatch(s1, k)
           ELSE [closeChannelWs(s1) EXCEPT !.wsTicket = k, !.td[k] = "wsWait"]
    ELSE tdAfterWs(s1, k, fault)

\* cleanupChannel(channelId) called by k, up to its first await.
\* Variant without the cleanupPromises.has(channelId) test of lines 33-36.
cleanupChannel_noTicketCheck(s, k, fault) ==
  IF ~s.inSipMap
    THEN [s EXCEPT !.cl[k] = "done"]
    ELSE [tdBegin(s, k, fault) EXCEPT !.ticket = k]

cleanupChannel(s, k, fault) ==
  IF s.ticket # "none"
    THEN \* await cleanupPromises.get(channelId)
         [s EXCEPT !.joined[k] = s.ticket,
                   !.cl[k] = IF s.td[s.ticket] = "done" THEN "done" ELSE "await"]
    ELSE IF ~s.inSipMap
      THEN [s EXCEPT !.cl[k] = "done"]
      ELSE \* the async function runs to its first await, then
           \* cleanupPromises.set(channelId, cleanupPromise)
           [tdBegin(s, k, fault) EXCEPT !.ticket = k]

\* The 1s timer of the WebSocket wait (line 59).
WsWaitTimeout(k, fault) ==
  /\ td[k] = "wsWait"
  /\ Put(tdAfterWs(Cur, k, fault))

\* channels.get / channel.hangup returned or threw (lines 83-95); either way
\* the bridge is next (lines 96-99).
TdHangupReturn(k) ==
  /\ td[k] = "hangupWait"
  /\ Put([Cur EXCEPT !.td[k] = "bridgeWait"])

\* bridges.get / bridge.destroy returned or threw (lines 96-108), then the
\* socket steps.
TdBridgeReturn(k, fault) ==
  /\ td[k] = "bridgeWait"
  /\ Put(tdSockets(Cur, k, fault))

\* The sender wait ends: by the close callback or by the 1s timer.
TdSenderWaitEnd(k, fault) ==
  /\ td[k] = "senderWait"
  /\ Put(tdReceiver([Cur EXCEPT !.rtpSendersHas = FALSE], k, fault))

\* The 1s timer of the receiver wait (line 131).
\* Variant without the setTimeout of line 131.
TdRecvTimeout_noTimer(k) ==
  /\ FALSE
  /\ td[k] = "recvWait"
  /\ UNCHANGED vars

TdRecvTimeout(k) ==
  /\ td[k] = "recvWait"
  /\ Put(tdFinally([Cur EXCEPT !.rtpReceiversHas = FALSE], k))

\* The receiver's close callback (lines 126-130): releaseRtpPort, resolve.
RecvCloseCb ==
  /\ recvCb
  /\ LET s1 == [Cur EXCEPT !.recvCb = FALSE,
                           !.usedRtpPorts = releaseRtpPort(@, rtpPort)]
     IN IF \E j \in Callers : td[j] = "recvWait"
          THEN LET k == CHOOSE j \in Callers : td[j] = "recvWait"
               IN Put(tdFinally([s1 EXCEPT !.rtpReceiversHas = FALSE], k))
          ELSE Put(s1)


\* ------------------------------------------------------- AI connection

\* handleClose (openai.js 294-305, gemini.js 299-310): the flag, the
\* reference, sipMap.set, and the transport-close ticket resolved; the
\* teardown waiting on it goes on at once.
handleClose(s, fault) ==
  LET s1 == [s EXCEPT !.wsClosed = TRUE, !.cdWs = "none", !.inSipMap = TRUE] IN
  IF s1.wsTicket # "none"
    THEN LET k == s1.wsTicket
             s2 == [s1 EXCEPT !.wsTicket = "none"]
         IN IF s2.td[k] = "wsWait" THEN tdAfterWs(s2, k, fault) ELSE s2
    ELSE s1

\* StasisStart for a SIP channel: the handler starts and awaits the bridge
\* and the answer (lines 178-183).
StasisStart ==
  /\ setup = "none"
  /\ Put([Cur EXCEPT !.setup = "answering"])

\* bridges.create / addChannel / answer returned (ok) or threw. On ok: port,
\* receiver, sipMap.set, and externalMedia is awaited (lines 186-198); else the
\* catch calls cleanupChannel (lines 218-221).
AnswerReturn(ok) ==
  /\ setup = "answering"
  /\ IF ok
       THEN LET r == getNextRtpPort(usedRtpPorts) IN
            Put([Cur EXCEPT !.usedRtpPorts = r.used, !.rtpPort = r.port,
                            !.rtpReceiversHas = TRUE, !.inSipMap = TRUE,
                            !.wsClosed = FALSE, !.setup = "extMedia",
                            !.steps = @ \o <<"port", "receiver",
                                              "registered">>])
       ELSE Put(cleanupChannel([Cur EXCEPT !.setup = "ended"], "setup", "none"))

\* channels.externalMedia returned (ok) or threw. On ok: extMap.set (line
\* 200), the call-duration timer on the session (lines 203-215), and
\* startAIWebSocket runs to the await of connectWebSocket: it sets the message
\* interval and creates the WebSocket. With the call not in sipMap, line 205
\* or startAIWebSocket throws. A throw goes to the catch, which calls
\* cleanupChannel (lines 218-221).
\* Variant without the catch of lines 218-221.
ExternalMediaReturn_noCatch(ok, fault) ==
  /\ setup = "extMedia"
  /\ IF ok /\ inSipMap
       THEN Put([Cur EXCEPT
                   !.extMapHas = TRUE,
                   !.callTimer = (CALL_DURATION_LIMIT_SECONDS > 0),
                   !.msgTick = TRUE, !.wsState = "connecting",
                   !.acked = FALSE, !.setup = "connecting",
                   !.steps = @ \o <<"extMedia", "transport">>])
       ELSE Put([Cur EXCEPT !.setup = "ended"])

ExternalMediaReturn(ok, fault) ==
  /\ setup = "extMedia"
  /\ IF ok
       THEN LET s1 == [Cur EXCEPT !.extMapHas = TRUE,
                                  !.steps = Append(@, "extMedia")] IN
            IF inSipMap
              THEN Put([s1 EXCEPT
                          !.callTimer = (CALL_DURATION_LIMIT_SECONDS > 0),
                          !.msgTick = TRUE, !.wsState = "connecting",
                          !.acked = FALSE, !.setup = "connecting",
                          !.steps = Append(@, "transport")])
              ELSE Put(cleanupChannel([s1 EXCEPT !.setup = "ended"],
                                      "setup", fault))
       ELSE Put(cleanupChannel([Cur EXCEPT !.setup = "ended"], "setup", fault))

\* ws 'open' handler (openai.js 214-272): streamAudio constructs a new sender
\* (its closure variables with seq and ssrc as the random draws, its socket,
\* rtpSenders.set), channelData gets ws and streamHandler, sipMap.set,
\* resolve(ws). The socket of an earlier sender that was not ended stays open
\* with nothing referring to it, and its interval stays set if it was.
\* openai.js goes on to resolve(ws); gemini.js first awaits setupComplete or
\* its 5s timer (lines 229-245).
WsOpen(seq, ssrc) ==
  /\ wsState = "connecting"
  /\ Put([Cur EXCEPT !.wsState = "open",
                     !.orphans = IF senderSock = "open" THEN @ + 1 ELSE @,
                     !.prev = IF intervalId
                                THEN Append(@, [rtpSsrc |-> rtpSsrc,
                                                packetQueue |-> packetQueue])
                                ELSE @,
                     !.senderSock = "open",
                     !.isSocketClosed = FALSE,
                     !.intervalId = FALSE,
                     !.rtpSequence = seq,
                     !.rtpTimestamp = 0,
                     !.rtpSsrc = ssrc,
                     !.packetQueue = << >>,
                     !.totalPacketsSent = 0,
                     !.sendCbs = 0,
                     !.audioBuffer = << >>,
                     !.senderCloses = 0,
                     !.rtpSendersHas = TRUE,
                     !.cdWs = "cur",
                     !.hasHandler = TRUE,
                     !.inSipMap = TRUE,
                     !.steps = IF Len(@) = Len(SetupOrder) - 1
                                 THEN Append(@, "sender") ELSE @,
                     !.setup = IF @ = "connecting"
                                 THEN IF provider = "gemini"
                                        THEN "setupWait" ELSE "ended"
                                 ELSE @])

\* gemini.js 229-263: the wait of the first open handler ends, by the 50ms
\* check that finds setupComplete or by the 5s timer; the initial message is
\* sent and resolve(ws) lets startGeminiWebSocket return.
GeminiSetupEnd(timeout) ==
  /\ setup = "setupWait"
  /\ timeout \/ setupComplete
  /\ Put([Cur EXCEPT !.setup = "ended"])

\* ws 'error' handler (openai.js 284-292): a retry in 1s, or reject, which
\* makes startAIWebSocket throw into the catch of the StasisStart handler if
\* that is still waiting for it. The errored WebSocket emits 'close' next.
WsError(fault) ==
  /\ wsState \in {"connecting", "open", "doomed"}
  /\ LET s1 == [Cur EXCEPT !.wsState = "errored"] IN
     IF retryCount < maxRetries /\ inSipMap
       THEN Put([s1 EXCEPT !.retryCount = @ + 1, !.backoff = TRUE])
       ELSE IF setup \in {"connecting", "setupWait"}
         THEN Put(cleanupChannel([s1 EXCEPT !.setup = "ended"], "setup", fault))
         ELSE Put(s1)

\* The reconnect timer fires: connectWebSocket() makes a new WebSocket, the
\* closure variable ws now refers to it.
BackoffFire ==
  /\ backoff
  /\ Put([Cur EXCEPT !.backoff = FALSE,
                     !.oldClose = IF wsState = "errored" THEN @ + 1 ELSE @,
                     !.cdWs = IF @ = "cur" THEN "old" ELSE @,
                     !.acked = FALSE,
                     !.wsState = "connecting"])

\* 'close' of the latest WebSocket: after its error, after close(), or from
\* the remote end.
WsClose(fault) ==
  /\ wsState \in {"open", "closing", "errored"}
  /\ Put(handleClose([Cur EXCEPT !.wsState = "closed"], fault))

\* 'close' of an earlier WebSocket, after a newer one has been made.
WsCloseOld(fault) ==
  /\ oldClose > 0
  /\ Put(handleClose([Cur EXCEPT !.oldClose = @ - 1], fault))

\* ws 'message' handler: messageQueue.push(response). The model tells an
\* audio delta, an 'error' event and the provider's answer to the
\* configuration message ("ack": 'session.updated', setupComplete).
WsMessage(m) ==
  /\ wsState = "open"
  /\ Len(msgQueue) < MaxMsgs
  /\ Put([Cur EXCEPT !.msgQueue = Append(@, m), !.acked = @ \/ (m = "ack")])

\* const maxMessages = 5
maxMessages == 5

\* processMessage(response): an audio delta does sipMap.set(channelId,
\* channelData) (openai.js 127-129, gemini.js 120-122); an 'error' event
\* does ws.close() in openai.js (192-195) and nothing in gemini.js; the
\* answer to the configuration message is logged by openai.js (102-104) and
\* sets setupComplete in gemini.js (95-98).
processMessage(s, m) ==
  IF m = "delta" THEN [s EXCEPT !.inSipMap = TRUE]
  ELSE IF m = "error"
    THEN IF provider = "openai" THEN closeLatestWs(s) ELSE s
  ELSE IF provider = "gemini" THEN [s EXCEPT !.setupComplete = TRUE]
  ELSE s

\* The loop of the interval callback on queue q with n rounds left: each
\* await of processMessage is settled at once, so the rounds of one callback
\* run with nothing in between.
RECURSIVE processBatch(_, _, _)
RECURSIVE tickLoop(_, _)
processBatch(s, q, n) ==
  IF n = 0 \/ q = << >>
    THEN [s EXCEPT !.msgQueue = q]
    ELSE processBatch(processMessage(s, Head(q)), Tail(q), n - 1)

\* The message interval fires with messages queued (lines 310-315).
MsgTick ==
  /\ msgTick
  /\ msgQueue # << >>
  /\ Put(processBatch(Cur, msgQueue, maxMessages))

\* Messages the model lets arrive when it keeps their numbers.
MaxArrivals == 6

\* The 'message' handler again (openai.js 274-282), with the number of each
\* message kept in mq: a frame that JSON.parse takes is a message and is
\* pushed on messageQueue (mq.queue here), one that makes it throw is logged
\* and dropped in the catch. Nothing else is done with the frame.
OnMessage(parses, m) ==
  /\ wsState = "open"
  /\ mq.arrived < MaxArrivals
  /\ Put([Cur EXCEPT
            !.mq = IF parses
                     THEN [@ EXCEPT !.arrived = @ + 1,
                                    !.queue = Append(@, [n |-> mq.arrived + 1,
                                                         m |-> m])]
                     ELSE @])

\* One round of the loop below: processMessage(messageQueue.shift()).
\* mq.done logs the calls of processMessage and mq.batch counts those of the
\* running callback.
\* Variant with messageQueue.pop() for messageQueue.shift().
tickRound_pop(s) ==
  [processMessage(s, s.mq.queue[Len(s.mq.queue)].m) EXCEPT
     !.mq.queue = SubSeq(@, 1, Len(@) - 1),
     !.mq.done = Append(@, s.mq.queue[Len(s.mq.queue)].n),
     !.mq.batch = @ + 1]

tickRound(s) ==
  [processMessage(s, Head(s.mq.queue).m) EXCEPT
     !.mq.queue = Tail(@),
     !.mq.done = Append(@, Head(s.mq.queue).n),
     !.mq.batch = @ + 1]

\* for (let i = 0; i < maxMessages && messageQueue.length > 0; i++)
\*   await processMessage(messageQueue.shift());
\* from round i on. Each await is settled at once: nothing runs between the
\* rounds of a callback.
tickLoop(s, i) ==
  IF i = maxMessages \/ s.mq.queue = << >>
    THEN s
    ELSE \* the state after the round, worked out once
         LET t == CHOOSE t \in {tickRound(s)} : TRUE
         IN  tickLoop(t, i + 1)

\* The message interval fires with numbered messages queued (lines 310-315).
MessageTick ==
  /\ msgTick
  /\ mq.queue # << >>
  /\ \E s \in {[Cur EXCEPT !.mq.batch = 0]} :
       \E r \in {tickLoop(s, 0)} : Put(r)

\* The call-duration timer fires (lines 205-213): channels.hangup is
\* requested for the channel; what follows is what the telephony side does.
CallTimerFire ==
  /\ callTimer
  /\ Put([Cur EXCEPT !.callTimer = FALSE])

\* StasisEnd for the SIP channel (lines 224-248): channels.get finds the
\* channel (nothing is done) or not (ws.close(), cleanupChannel).
StasisEnd(found, fault) ==
  /\ setup # "none"
  /\ cl["hangup"] = "idle"
  /\ IF found
       THEN Put([Cur EXCEPT !.cl["hangup"] = "skipped"])
       ELSE LET s1 == IF inSipMap /\ cdWs # "none" /\ ~wsClosed
                        THEN closeChannelWs(Cur) ELSE Cur
            IN Put(cleanupChannel(s1, "hangup", fault))

\* const maxAttempts = 10
maxAttempts == 10

\* StasisStart for the call's ExternalMedia channel (lines 160-169), which
\* the telephony side makes when channels.externalMedia is requested (line
\* 198): with the mapping in extMap addExtToBridge is awaited, without it the
\* first 50ms timer.
ExtStasisStart ==
  /\ ext.st = "none"
  /\ Len(steps) >= 3
  /\ ext' = [ext EXCEPT !.st = IF extMapHas THEN "bridging" ELSE "polling"]
  /\ UNCHANGED <<portVars, inSipMap, senderVars, auxVars, callVars, mq>>

\* A 50ms timer of the polling loop fires (lines 165-176): extMap.get,
\* attempts++, and the loop goes on, or ends with the mapping (addExtToBridge
\* is awaited) or without it (an error is logged and the handler returns).
ExtPollTick ==
  /\ ext.st = "polling"
  /\ LET n == ext.attempts + 1 IN
     ext' = IF extMapHas THEN [st |-> "bridging", attempts |-> n]
            ELSE IF n < maxAttempts THEN [st |-> "polling", attempts |-> n]
            ELSE [st |-> "gaveUp", attempts |-> n]
  /\ UNCHANGED <<portVars, inSipMap, senderVars, auxVars, callVars, mq>>

\* addExtToBridge returned (ok) or threw (lines 171-172, 21-30): the handler
\* ends, with a log line or with its promise rejected.
ExtBridgeReturn(ok) ==
  /\ ext.st = "bridging"
  /\ ext' = [ext EXCEPT !.st = IF ok THEN "bridged" ELSE "bridgeFailed"]
  /\ UNCHANGED <<portVars, inSipMap, senderVars, auxVars, callVars, mq>>

NextLife ==
  \/ StasisStart
  \/ \E ok \in BOOLEAN : AnswerReturn(ok)
  \/ \E ok \in BOOLEAN, fault \in Faults : ExternalMediaReturn(ok, fault)
  \* no frame is enqueued in the life of the call looked at here: one draw
  \* of the new sender's sequence number and SSRC stands for all
  \/ WsOpen(0, FirstSsrc)
  \/ \E fault \in Faults : WsError(fault)
  \/ BackoffFire
  \/ \E fault \in Faults : WsClose(fault)
  \/ \E fault \in Faults : WsCloseOld(fault)
  \/ \E m \in {"delta", "error"} : WsMessage(m)
  \/ MsgTick
  \/ \E found \in BOOLEAN, fault \in Faults : StasisEnd(found, fault)
  \/ \E k \in Callers, fault \in Faults : WsWaitTimeout(k, fault)
  \/ \E k \in Callers : TdHangupReturn(k)
  \/ \E k \in Callers, fault \in Faults : TdBridgeReturn(k, fault)
  \/ \E k \in Callers, fault \in Faults : TdSenderWaitEnd(k, fault)
  \/ \E k \in Callers : TdRecvTimeout(k)
  \/ RecvCloseCb

(***************************************************************************)
(* The call's receiver: the 'message' handler of startRTPReceiver (rtp.js) *)
(***************************************************************************)
\* Datagrams the model lets the receiver get.
MaxDatagrams == 2

RecvInit ==
  /\ rtpSource = "none"
  /\ received = << >>
  /\ forwarded = << >>

\* channelData && channelData.ws && channelData.ws.readyState === 1
ForwardReady_anyState == inSipMap /\ cdWs # "none"

ForwardReady == inSipMap /\ cdWs = "cur" /\ wsState = "open"

\* A datagram from src reaches the receiver's socket, bound from
\* startRTPReceiver until receiver.close(): the source is recorded on a
\* session that has none, and the payload is sent on channelData.ws or not.
\* received keeps, per datagram, its source and what the handler found:
\* whether sipMap had the call, whether channelData.ws was a WebSocket
\* with readyState 1 (OPEN), and whether the latest WebSocket had delivered
\* the provider's answer to the configuration message.
RecvDatagram(src) ==
  /\ rtpReceiversHas /\ ~recvCb
  /\ Len(received) < MaxDatagrams
  /\ received' = Append(received,
       [src |-> src, present |-> inSipMap,
        open |-> (inSipMap /\ cdWs = "cur" /\ wsState = "open"),
        acked |-> acked])
  /\ rtpSource' = IF inSipMap /\ rtpSource = "none" THEN src ELSE rtpSource
  /\ forwarded' = IF ForwardReady THEN Append(forwarded, Len(received) + 1)
                                  ELSE forwarded
  /\ UNCHANGED <<portVars, inSipMap, senderVars, lifeVars, w, cv>>


(***************************************************************************)
(* waitForBufferEmpty (openai.js, gemini.js): one call                     *)
(***************************************************************************)
\* maxWaitTime = 6000, checkInterval = 10: the defaults of the parameters.
maxWaitTime == 6000

checkInterval == 10

\* Milliseconds the model lets pass in one step while nothing else happens.
TimeStep == 500

\* channelData.totalDeltaBytes at the call. For these values the double
\* arithmetic of Math.ceil((b / 8000) * 1000) gives the exact ceiling.
DeltaBytes == {0, 8, 80, 4000, 8000, 44000, 48000}

\* Math.ceil((b / 8000) * 1000)
CeilMs(b) == (b * 1000 + 7999) \div 8000

\* Lines 18-22: audioDurationMs and dynamicTimeout for totalDeltaBytes = b.
dynamicTimeout(b) ==
  LET audioDurationMs == IF b # 0 THEN CeilMs(b) + 500 ELSE 1000 IN
  IF audioDurationMs < maxWaitTime THEN audioDurationMs ELSE maxWaitTime

\* waitForBufferEmpty(channelId) is called. hasHandler: channelData has a
\* streamHandler; b: channelData.totalDeltaBytes; queued: the array
\* streamHandler.packetQueue is not empty; stale: that array is no longer the
\* sender's queue (stopPlayback has replaced it), so it stays as it is.
\* streamHandler.audioBuffer is the empty buffer the sender started with.
\* With frames in the array the while loop is entered and awaits its first
\* 10ms timer; else Promise.race is awaited.
StartWait(hasHandlerArg, b, queued, stale) ==
  /\ w.phase = "none"
  /\ w' = IF ~hasHandlerArg
            THEN [w EXCEPT !.phase = "done", !.result = "true"]
            ELSE [w EXCEPT !.phase = IF queued THEN "poll" ELSE "race",
                           !.bytes = b,
                           !.dynamicTimeout = dynamicTimeout(b),
                           !.listening = TRUE,
                           !.queued = queued,
                           !.stale = stale,
                           !.raceStart = 0]
  /\ UNCHANGED <<portVars, inSipMap, senderVars, lifeVars, recvVars, cv>>

\* TimeStep goes by in the while loop with the array not empty: the polls in
\* between change nothing. The poll that finds maxWaitTime reached leaves the
\* loop and the function returns false (lines 50-53).
PollAdvance ==
  /\ w.phase = "poll"
  /\ w.queued
  /\ w' = IF w.now + TimeStep >= maxWaitTime
            THEN [w EXCEPT !.now = @ + TimeStep, !.phase = "done",
                           !.result = "false"]
            ELSE [w EXCEPT !.now = @ + TimeStep]
  /\ UNCHANGED <<portVars, inSipMap, senderVars, lifeVars, recvVars, cv>>

\* The next poll, checkInterval later, finds the array empty: the loop ends,
\* the timeout timer is set (lines 57-64) and Promise.race awaited, which is
\* settled already if the listener has resolved audioFinishedPromise.
PollExit ==
  /\ w.phase = "poll"
  /\ ~w.queued
  /\ w' = IF w.received
            THEN [w EXCEPT !.now = @ + checkInterval, !.phase = "done",
                           !.result = "true"]
            ELSE [w EXCEPT !.now = @ + checkInterval, !.phase = "race",
                           !.raceStart = w.now + checkInterval]
  /\ UNCHANGED <<portVars, inSipMap, senderVars, lifeVars, recvVars, cv>>

\* Time goes by in Promise.race, up to the timer's deadline.
RaceAdvance ==
  /\ w.phase = "race"
  /\ w.now < w.raceStart + w.dynamicTimeout
  /\ w' = [w EXCEPT !.now =
             IF w.now + TimeStep < w.raceStart + w.dynamicTimeout
               THEN w.now + TimeStep ELSE w.raceStart + w.dynamicTimeout]
  /\ UNCHANGED <<portVars, inSipMap, senderVars, lifeVars, recvVars, cv>>

\* The timer of timeoutPromise fires.
RaceTimeout ==
  /\ w.phase = "race"
  /\ w.now = w.raceStart + w.dynamicTimeout
  /\ w' = [w EXCEPT !.phase = "done", !.result = "true"]
  /\ UNCHANGED <<portVars, inSipMap, senderVars, lifeVars, recvVars, cv>>

\* rtpEvents emits 'audioFinished' for this call (own) or for another one
\* while the wait goes on: the once-listener of lines 26-33, if it is still
\* registered, is removed whatever the id is, and resolves
\* audioFinishedPromise only if the id is the call's. An emission that finds
\* no listener does nothing; ownEmitted keeps that one was made for the call.
AudioFinished(own) ==
  /\ w.phase \in {"poll", "race"}
  /\ w.listening \/ (own /\ ~w.ownEmitted)
  /\ w' = IF ~w.listening
            THEN [w EXCEPT !.ownEmitted = TRUE]
            ELSE IF own
              THEN IF w.phase = "race"
                     THEN [w EXCEPT !.listening = FALSE, !.received = TRUE,
                                    !.ownEmitted = TRUE,
                                    !.phase = "done", !.result = "true"]
                     ELSE [w EXCEPT !.listening = FALSE, !.received = TRUE,
                                    !.ownEmitted = TRUE]
              ELSE [w EXCEPT !.listening = FALSE]
  /\ UNCHANGED <<portVars, inSipMap, senderVars, lifeVars, recvVars, cv>>

\* The interval callback of the sender shifts the last frame out of the array.
QueueDrains ==
  /\ w.phase = "poll"
  /\ w.queued /\ ~w.stale
  /\ w' = [w EXCEPT !.queued = FALSE]
  /\ UNCHANGED <<portVars, inSipMap, senderVars, lifeVars, recvVars, cv>>

NextDrain ==
  \/ \E h \in BOOLEAN, b \in DeltaBytes, queued \in BOOLEAN, stale \in BOOLEAN :
       StartWait(h, b, queued, stale)
  \/ PollAdvance
  \/ PollExit
  \/ RaceAdvance
  \/ RaceTimeout
  \/ \E own \in BOOLEAN : AudioFinished(own)
  \/ QueueDrains


(***************************************************************************)
(* Mu-law conversion (audio-converter.js)                                  *)
(***************************************************************************)
MULAW_BIAS == 132

\* The signed 16-bit samples.
Int16Min == -32768

Int16Max == 32767

\* The value an Int16Array element holds after v is stored in it.
ToInt16(v) == ((v + 32768) % 65536) - 32768

mulawToLinear_noBias(i) ==
  LET mulaw == 255 - i
      sign == IF (mulaw \div 128) % 2 = 1 THEN -1 ELSE 1
      exponent == (mulaw \div 16) % 8
      mantissa == mulaw % 16
      magnitude == (mantissa * 8 + MULAW_BIAS) * 2^exponent
  IN  ToInt16(sign * magnitude)

\* mulawToLinear[i], i in 0..255. mulaw is the low byte of ~i, the only bits
\* the masks of lines 13-15 read.
mulawToLinear(i) ==
  LET mulaw == 255 - i
      sign == IF (mulaw \div 128) % 2 = 1 THEN -1 ELSE 1
      exponent == (mulaw \div 16) % 8
      mantissa == mulaw % 16
      magnitude == (mantissa * 8 + MULAW_BIAS) * 2^exponent - MULAW_BIAS
  IN  ToInt16(sign * magnitude)

\* linearToMulaw[i], i in 0..65535. sign, exponent << 4 and mantissa have no
\* bit in common, so their OR is their sum and ~(.) & 0xFF is 255 - (.).
linearToMulaw(i) ==
  LET sample == IF i >= 32768 THEN i - 65536 ELSE i
      sign == IF sample < 0 THEN 128 ELSE 0
      abs == IF sample < 0 THEN -sample ELSE sample
      adjusted == abs + MULAW_BIAS
      fits == {exp \in 0..7 : adjusted < 2^(exp + 8)}
      exponent == IF fits = {} THEN 7
                  ELSE CHOOSE exp \in fits : \A o \in fits : exp <= o
      mantissa == (adjusted \div 2^(exponent + 3)) % 16
  IN  255 - (sign + exponent * 16 + mantissa)

\* mulawToPcm16 on a buffer of one byte: the sample writeInt16LE stores.
mulawToPcm16(b) == mulawToLinear(b)

\* pcm16ToMulaw on a buffer of one sample, as readInt16LE returns it.
pcm16ToMulaw(pcmValue) ==
  LET unsignedValue == IF pcmValue < 0 THEN pcmValue + 65536 ELSE pcmValue
  IN  linearToMulaw(unsignedValue)

\* A mu-law byte is decoded.
DecodeByte ==
  /\ cv.stage = "byte"
  /\ cv' = [cv EXCEPT !.stage = "once", !.once = mulawToPcm16(cv.x)]
  /\ UNCHANGED <<portVars, inSipMap, senderVars, lifeVars, recvVars, w>>

\* A sample is encoded and decoded again: the input sample first, then the
\* sample the first pass (or the decoding of the input byte) gave.
RoundTrip ==
  /\ cv.stage \in {"sample", "once"}
  /\ cv' = IF cv.stage = "sample"
             THEN [cv EXCEPT !.stage = "once",
                             !.once = mulawToPcm16(pcm16ToMulaw(cv.x))]
             ELSE [cv EXCEPT !.stage = "twice",
                             !.twice = mulawToPcm16(pcm16ToMulaw(cv.once))]
  /\ UNCHANGED <<portVars, inSipMap, senderVars, lifeVars, recvVars, w>>

NextConv == DecodeByte \/ RoundTrip

\* Longest buffer, in samples, given to the resamplers.
MaxSamples == 3

\* Sample values of the resampled buffers: the extremes, and values whose
\* mean is not an integer.
SampleVals == {Int16Min, -1, 0, 2, Int16Max}

\* The buffers of 0..n samples, as sequences of readInt16LE values.
RECURSIVE SampleSeqs(_)
SampleSeqs(n) ==
  IF n = 0 THEN {<< >>}
  ELSE LET shorter == SampleSeqs(n - 1) IN
       shorter \cup {Append(q, v) : q \in {r \in shorter : Len(r) = n - 1},
                                     v \in SampleVals}

\* Math.round(s / 2): the nearest integer, a half going up.
RoundHalf(s) == (s + 1) \div 2

\* buf.readInt16LE(offset) on a buffer of n samples returns a value: the two
\* bytes are within the buffer. Otherwise it throws a RangeError.
ReadInRange(n, offset) == offset >= 0 /\ offset + 2 <= 2 * n

\* The read of the last sample (line 95), at offset (numSamples - 1) * 2,
\* returns a value; resample8to16 has no try/catch, so if the read throws
\* the function does.
LastSampleRead(pcm8k) == ReadInRange(Len(pcm8k), (Len(pcm8k) - 1) * 2)

\* What resample8to16 returns when it returns: sample k of the result (from
\* 1) is byte offset 2(k - 1). The means are within 16 bits, so writeInt16LE
\* stores them.
resample8to16(pcm8k) ==
  [k \in 1..(2 * Len(pcm8k)) |->
     IF k % 2 = 1 THEN pcm8k[(k + 1) \div 2]
     ELSE IF k \div 2 < Len(pcm8k)
            THEN RoundHalf(pcm8k[k \div 2] + pcm8k[(k \div 2) + 1])
     ELSE pcm8k[Len(pcm8k)]]

resample16to8_second(pcm16k) ==
  [i \in 1..(Len(pcm16k) \div 2) |-> pcm16k[2 * i]]

\* resample16to8 on a buffer of an even number of samples.
resample16to8(pcm16k) ==
  [i \in 1..(Len(pcm16k) \div 2) |-> pcm16k[2 * i - 1]]

\* resample8to16 is applied to the input buffer: it returns, or throws.
Upsample ==
  /\ cv.stage = "pcm8k"
  /\ cv' = IF LastSampleRead(cv.x)
             THEN [cv EXCEPT !.stage = "pcm16k", !.once = resample8to16(cv.x)]
             ELSE [cv EXCEPT !.stage = "RangeError"]
  /\ UNCHANGED <<portVars, inSipMap, senderVars, lifeVars, recvVars, w>>

\* resample16to8 is applied to what resample8to16 returned.
Downsample ==
  /\ cv.stage = "pcm16k"
  /\ cv' = [cv EXCEPT !.stage = "pcm8kAgain", !.twice = resample16to8(cv.once)]
  /\ UNCHANGED <<portVars, inSipMap, senderVars, lifeVars, recvVars, w>>

NextResample == Upsample \/ Downsample


(***************************************************************************)
(* Specifications                                                          *)
(***************************************************************************)
\* No waitForBufferEmpty call has been made.
NoWait ==
  [phase |-> "none", now |-> 0, bytes |-> 0, dynamicTimeout |-> 0,
   raceStart |-> 0, queued |-> FALSE, stale |-> FALSE, listening |-> FALSE,
   received |-> FALSE, ownEmitted |-> FALSE, result |-> "none"]

\* Nothing has been put through the converter.
NoConv == [stage |-> "none", src |-> "none", x |-> 0, once |-> 0, twice |-> 0]

AuxInit ==
  /\ RecvInit
  /\ w = NoWait
  /\ cv = NoConv

NextPort ==
  \/ \E c \in PortCalls : PortCallStart(c)
  \/ \E c \in PortCalls : PortCleanupRelease(c)
  \/ \E c \in PortCalls, late \in BOOLEAN : PortCleanupNoRelease(c, late)
  \/ \E c \in PortCalls : PortLateClose(c)

\* The port pool shared by the calls; no sender is looked at.
InitPort ==
  /\ PortInit
  /\ inSipMap = FALSE
  /\ SenderNone
  /\ LifeInit
  /\ AuxInit

SpecPort == InitPort /\ [][NextPort]_vars

\* One sender, constructed by the open handler of a registered call.
InitSender ==
  /\ PortInit
  /\ inSipMap = TRUE
  /\ SenderInit
  /\ LifeInit
  /\ AuxInit

SpecSender == InitSender /\ [][NextSender]_vars

\* The 20ms interval fires while it is set.
FairSender == InitSender /\ [][NextSender]_vars /\ WF_vars(PacingTick)

\* writeAudio calls on a sender.
NextBuffer ==
  \E len \in WriteLens, silent \in BOOLEAN : WriteAudio(len, silent)

SpecBuffer == InitSender /\ [][NextBuffer]_vars

\* The operations of a sender's handle that take audio, its interval and
\* endStream.
NextPlayback ==
  \/ \E len \in ChunkLens : SendAudioChunk(len)
  \/ SendRtpPacket(samplesPerPacket)
  \/ WriteAudio(samplesPerPacket, FALSE)
  \/ PacingTick
  \/ \E err \in BOOLEAN : SendCallback(err)
  \/ EndStream

SpecPlayback == InitSender /\ [][NextPlayback]_vars

\* The state of a call whose setup has gone through: StasisStart, answer,
\* externalMedia, WebSocket open.
LifeConnected ==
  /\ setup = "ended"
  /\ wsClosed = FALSE
  /\ cdWs = "cur"
  /\ hasHandler = TRUE
  /\ wsState = "open"
  /\ oldClose = 0
  /\ retryCount = 0
  /\ backoff = FALSE
  /\ msgTick = TRUE
  /\ msgQueue = << >>
  /\ orphans = 0
  /\ rtpSendersHas = TRUE
  /\ rtpReceiversHas = TRUE
  /\ recvCb = FALSE
  /\ rtpPort = RTP_PORT_START
  /\ provider = "openai"
  /\ setupComplete = FALSE
  /\ acked = FALSE
  /\ callTimer = (CALL_DURATION_LIMIT_SECONDS > 0)
  /\ extMapHas = TRUE
  /\ ext = NoExt
  /\ steps = SetupOrder
  /\ mq = NoMq
  /\ ticket = "none"
  /\ wsTicket = "none"
  /\ td = [k \in Callers |-> "idle"]
  /\ cl = [k \in Callers |-> "idle"]
  /\ joined = [k \in Callers |-> "none"]
  /\ threw = [k \in Callers |-> FALSE]

\* The sender of a connected call, with the datagrams its receiver gets.
InitSenderIO ==
  /\ usedRtpPorts = {RTP_PORT_START}
  /\ pSess = [c \in PortCalls |-> NoSess]
  /\ inSipMap = TRUE
  /\ SenderInit
  /\ LifeConnected
  /\ AuxInit

NextSenderIO ==
  \/ NextSender
  \/ \E src \in Addrs : RecvDatagram(src)

SpecSenderIO == InitSenderIO /\ [][NextSenderIO]_vars

\* A connected call whose sender plays frames, with endStream calls on the
\* sender's handle and the teardown of the call at its hangup.
\* streamHandler.end() runs before the teardown's sender step, which then
\* finds sender.isOpen false and waits for nothing.
NextEnd ==
  \/ SendRtpPacket(samplesPerPacket)
  \/ PacingTick
  \/ EndStream
  \/ \E fault \in Faults : StasisEnd(FALSE, fault)
  \/ \E fault \in Faults : WsClose(fault)
  \/ \E k \in Callers, fault \in Faults : WsWaitTimeout(k, fault)
  \/ \E k \in Callers : TdHangupReturn(k)
  \/ \E k \in Callers, fault \in Faults : TdBridgeReturn(k, fault)
  \/ \E k \in Callers : TdRecvTimeout(k)
  \/ RecvCloseCb

SpecEnd == InitSenderIO /\ [][NextEnd]_vars

\* The state of a call whose WebSocket opened at the last but one attempt
\* allowed: the attempts before it errored while connecting and their 'close'
\* events have come (handleClose has set wsClosed), then the open handler ran.
LifeLateConnected ==
  /\ setup = "ended"
  /\ wsClosed = TRUE
  /\ cdWs = "cur"
  /\ hasHandler = TRUE
  /\ wsState = "open"
  /\ oldClose = 0
  /\ retryCount = maxRetries - 1
  /\ backoff = FALSE
  /\ msgTick = TRUE
  /\ msgQueue = << >>
  /\ orphans = 0
  /\ rtpSendersHas = TRUE
  /\ rtpReceiversHas = TRUE
  /\ recvCb = FALSE
  /\ rtpPort = RTP_PORT_START
  /\ provider = "openai"
  /\ setupComplete = FALSE
  /\ acked = FALSE
  /\ callTimer = (CALL_DURATION_LIMIT_SECONDS > 0)
  /\ extMapHas = TRUE
  /\ ext = NoExt
  /\ steps = SetupOrder
  /\ mq = NoMq
  /\ ticket = "none"
  /\ wsTicket = "none"
  /\ td = [k \in Callers |-> "idle"]
  /\ cl = [k \in Callers |-> "idle"]
  /\ joined = [k \in Callers |-> "none"]
  /\ threw = [k \in Callers |-> FALSE]

InitReconnect ==
  /\ usedRtpPorts = {RTP_PORT_START}
  /\ pSess = [c \in PortCalls |-> NoSess]
  /\ inSipMap = TRUE
  /\ SenderInit
  /\ LifeLateConnected
  /\ AuxInit

\* A connected call whose sender plays frames while its WebSocket errors and
\* is connected again.
NextReconnect ==
  \/ SendRtpPacket(samplesPerPacket)
  \/ PacingTick
  \/ OldTick(1)
  \/ WsError("none")
  \/ BackoffFire
  \/ \E seq \in SeqStarts, ssrc \in Ssrcs : WsOpen(seq, ssrc)
  \/ WsClose("none")
  \/ WsCloseOld("none")

SpecReconnect == InitReconnect /\ [][NextReconnect]_vars

\* A connected call whose sender is given audio through writeAudio and
\* sendRtpPacket while its WebSocket errors and is connected again.
NextCallBuffer ==
  \/ \E len \in {0, 320}, silent \in BOOLEAN : WriteAudio(len, silent)
  \/ SendRtpPacket(samplesPerPacket)
  \/ PacingTick
  \/ WsError("none")
  \/ BackoffFire
  \/ WsOpen(0, FirstSsrc)
  \/ WsCloseOld("none")

SpecCallBuffer == InitReconnect /\ [][NextCallBuffer]_vars

\* A call's setup and AI connection under either provider, with the
\* provider's answer to the configuration message and the datagrams the
\* call's receiver gets.
InitRelay ==
  /\ PortInit
  /\ inSipMap = FALSE
  /\ SenderNone
  /\ \E p \in {"openai", "gemini"} : LifeInitFor(p)
  /\ AuxInit

NextRelay ==
  \/ StasisStart
  \/ AnswerReturn(TRUE)
  \/ ExternalMediaReturn(TRUE, "none")
  \/ WsOpen(0, FirstSsrc)
  \/ \E timeout \in BOOLEAN : GeminiSetupEnd(timeout)
  \/ WsError("none")
  \/ BackoffFire
  \/ WsClose("none")
  \/ WsCloseOld("none")
  \/ WsMessage("ack")
  \/ MsgTick
  \/ RecvDatagram("a")

SpecRelay == InitRelay /\ [][NextRelay]_vars

\* One call from its StasisStart on.
Init ==
  /\ PortInit
  /\ inSipMap = FALSE
  /\ SenderNone
  /\ LifeInit
  /\ AuxInit

Next == NextLife

Spec == Init /\ [][Next]_vars

\* The call's setup, its WebSocket and the teardown at its hangup, with the
\* StasisStart handler run for its ExternalMedia channel.
NextExt ==
  \/ StasisStart
  \/ \E ok \in BOOLEAN : AnswerReturn(ok)
  \/ \E ok \in BOOLEAN : ExternalMediaReturn(ok, "none")
  \/ WsOpen(0, FirstSsrc)
  \/ WsClose("none")
  \/ StasisEnd(FALSE, "none")
  \/ \E k \in Callers : WsWaitTimeout(k, "none")
  \/ \E k \in Callers : TdHangupReturn(k)
  \/ \E k \in Callers : TdBridgeReturn(k, "none")
  \/ \E k \in Callers : TdRecvTimeout(k)
  \/ RecvCloseCb
  \/ ExtStasisStart
  \/ ExtPollTick
  \/ \E ok \in BOOLEAN : ExtBridgeReturn(ok)

SpecExt == Init /\ [][NextExt]_vars

\* The call with its call-duration timer firing.
NextTimers ==
  \/ NextLife
  \/ CallTimerFire

SpecTimers == Init /\ [][NextTimers]_vars

\* Timers fire and telephony requests return; nothing is assumed of the AI
\* service or of the close callbacks of the UDP sockets.
Fairness ==
  /\ WF_vars(\E k \in Callers, fault \in Faults : WsWaitTimeout(k, fault))
  /\ WF_vars(\E k \in Callers : TdHangupReturn(k))
  /\ WF_vars(\E k \in Callers, fault \in Faults : TdBridgeReturn(k, fault))
  /\ WF_vars(\E k \in Callers, fault \in Faults : TdSenderWaitEnd(k, fault))
  /\ WF_vars(\E k \in Callers : TdRecvTimeout(k))
  /\ WF_vars(BackoffFire)

FairSpec == Init /\ [][Next]_vars /\ Fairness

\* No frame is played in the life looked at here: one draw of the sender's
\* first sequence number stands for all.
InitMsg == InitSenderIO /\ rtpSequence = 0

\* A connected call whose WebSocket delivers frames: the 'message' handler
\* and the message interval, and the 'close' that follows an 'error' event's
\* ws.close().
NextMsg ==
  \/ \E parses \in BOOLEAN, m \in {"delta", "error"} : OnMessage(parses, m)
  \/ MessageTick
  \/ WsClose("none")

\* The interval of openai.js 310-315 is never cleared: its callback runs
\* every 25ms for as long as the process lives.
FairMsg == InitMsg /\ [][NextMsg]_vars /\ WF_vars(MessageTick)

\* The converter on one input: any signed 16-bit sample or any mu-law byte.
InitConv ==
  /\ PortInit
  /\ inSipMap = FALSE
  /\ SenderNone
  /\ LifeInit
  /\ RecvInit
  /\ w = NoWait
  /\ \/ \E x \in Int16Min..Int16Max :
          cv = [stage |-> "sample", src |-> "sample", x |-> x,
                once |-> 0, twice |-> 0]
     \/ \E b \in 0..255 :
          cv = [stage |-> "byte", src |-> "byte", x |-> b,
                once |-> 0, twice |-> 0]

SpecConv == InitConv /\ [][NextConv]_vars

\* The resamplers on one buffer of 0..MaxSamples samples; the empty one is
\* what msg.slice(12) gives for a datagram that is an RTP header only
\* (rtp.js:71), which mulawToPcm16 turns into an empty buffer.
InitResample ==
  /\ PortInit
  /\ inSipMap = FALSE
  /\ SenderNone
  /\ LifeInit
  /\ RecvInit
  /\ w = NoWait
  /\ \E x \in SampleSeqs(MaxSamples) :
       cv = [stage |-> "pcm8k", src |-> "pcm8k", x |-> x,
             once |-> << >>, twice |-> << >>]

SpecResample == InitResample /\ [][NextResample]_vars

\* One waitForBufferEmpty call for a session.
InitDrain ==
  /\ PortInit
  /\ inSipMap = TRUE
  /\ SenderNone
  /\ LifeInit
  /\ AuxInit

SpecDrain == InitDrain /\ [][NextDrain]_vars

\* The call with the datagrams its receiver gets; where a datagram comes
\* from plays no part in what the call does with its payload.
NextRecv ==
  \/ NextLife
  \/ RecvDatagram("a")

SpecRecv == Init /\ [][NextRecv]_vars


\* A teardown of caller k is between its start and its end.
Running(k) == td[k] \notin {"idle", "done"}

\* Caller j's cleanupChannel call is made in this step.
Invoked(j) == cl[j] = "idle" /\ cl'[j] \notin {"idle", "skipped"}

\* C1: a cleanup invoked while a teardown of the call is in progress starts no
\* teardown of its own and waits for that one: at most one teardown runs at any
\* time, it runs under the call's ticket, the second caller goes from the call
\* to waiting on that ticket, and while it waits the teardown it joined is
\* unfinished and it has none itself; it is done only when that one is.
C1_ConcurrentCleanupOneTeardown ==
  /\ [](\A j, k \in Callers : Running(j) /\ Running(k) => j = k)
  /\ [](\A k \in Callers : Running(k) => ticket = k)
  /\ [][\A j \in Callers :
          Invoked(j) /\ (\E k \in Callers : Running(k))
            => /\ cl'[j] = "await"
               /\ td'[j] = "idle"
               /\ td'[joined'[j]] \notin {"idle", "done"}
               /\ td' = td /\ inSipMap' = inSipMap]_vars
  /\ [](\A j \in Callers :
          cl[j] = "await" => td[j] = "idle" /\ Running(joined[j]))
  /\ [](\A j \in Callers :
          cl[j] = "done" /\ joined[j] # "none"
            => td[j] = "idle" /\ td[joined[j]] = "done")

\* A second caller has waited for a teardown in progress and both are done.
C1_Witness ==
  /\ cl["hangup"] = "done" /\ joined["hangup"] = "setup"
  /\ cl["setup"] = "done" /\ td["setup"] = "done" /\ ~threw["setup"]
  /\ ticket = "none"

\* C2: once a teardown of the call has completed the call has no entry in
\* sipMap.
C2_SessionAbsentAfterTeardown ==
  \A k \in Callers : td[k] = "done" => ~inSipMap

\* C3: a teardown in which a step threw still ends with the receiver step
\* done, the port released (or its release under way in the receiver's close
\* callback) and the receiver's entry removed.
C3_ThrowDoesNotAbortTeardown ==
  \A k \in Callers :
    td[k] = "done" /\ threw[k]
      => ~rtpReceiversHas /\ (recvCb \/ rtpPort \notin usedRtpPorts)

\* C4: a cleanup invoked after a teardown of the call has completed starts no
\* teardown and leaves sipMap as it is.
C4_SequentialCleanupIdempotent ==
  [][\A j \in Callers :
       Invoked(j) /\ (\E k \in Callers : td[k] = "done")
                  /\ ~(\E k \in Callers : Running(k))
         => td'[j] = "idle" /\ inSipMap' = inSipMap]_vars

\* No WebSocket of the call is open and no sender socket of the call is open.
NoOpenResources == wsState # "open" /\ senderSock # "open" /\ orphans = 0

\* C5: after a teardown of the call has completed, eventually and from then
\* on for ever the call has no open WebSocket and no open sender socket.
C5_NoOpenResourcesAfterTeardown ==
  (\E k \in Callers : td[k] = "done") ~> []NoOpenResources

\* C6: every cleanupChannel call eventually returns, with timers firing and
\* telephony requests returning, whatever the WebSocket and the UDP sockets do.
C6_CleanupCompletes ==
  \A j \in Callers : (cl[j] \in {"own", "await"}) ~> (cl[j] = "done")

\* A teardown has ended although the receiver's close callback has not come:
\* its wait was ended by the timer.
C6_Witness ==
  \E k \in Callers :
    td[k] = "done" /\ cl[k] = "done" /\ ~threw[k] /\ recvCb /\ ~rtpReceiversHas


\* C11: after a stopPlayback call that found the interval set and frames
\* queued, an 'audioFinished' is emitted.
C11_StopStillEmitsFinished == finishOwed ~> ~finishOwed

\* C12: the frames handed to rtpSender.send are frames that were enqueued, in
\* the order of their enqueueing, each at most once, ahead of all frames still
\* queued; a step hands over at most one frame, and only a tick does, taking
\* the head of the queue.
C12_SentInEnqueueOrder ==
  /\ [](\A i, j \in 1..Len(sent) :
          i < j => sent[i].timestamp < sent[j].timestamp)
  /\ [](\A i \in 1..Len(sent) :
          /\ sent[i].timestamp < rtpTimestamp
          /\ sent[i].timestamp % samplesPerPacket = 0
          /\ \A j \in 1..Len(packetQueue) :
               sent[i].timestamp < packetQueue[j].timestamp)
  /\ [][/\ Len(sent') <= Len(sent) + 1
        /\ SubSeq(sent', 1, Len(sent)) = sent
        /\ Len(sent') = Len(sent) + 1
             => /\ lastCall' = "tick"
                /\ packetQueue # << >>
                /\ sent'[Len(sent')].timestamp = Head(packetQueue).timestamp
                /\ sent'[Len(sent')].seq = Head(packetQueue).seq
                /\ packetQueue' = Tail(packetQueue)]_vars

\* Frames of two sendRtpPacket calls have been sent and others wait.
C12_Witness ==
  /\ Len(sent) >= 2
  /\ packetQueue # << >>
  /\ sent[2].timestamp = sent[1].timestamp + samplesPerPacket

\* Frame g is numbered as the frame enqueued next after f.
FollowsFrame(f, g) ==
  /\ g.seq = (f.seq + 1) % 65536
  /\ g.timestamp = f.timestamp + 160

\* C13: each frame enqueued is numbered one (modulo 65536) and 160 after the
\* frame enqueued before it: neighbours in the queue are, the closure's
\* counters are what follows the last frame enqueued, and every step that
\* enqueues starts at the counters and leaves them after its last frame.
C13_ConsecutiveFrameNumbers ==
  /\ [](\A i \in 1..(Len(packetQueue) - 1) :
          FollowsFrame(packetQueue[i], packetQueue[i + 1]))
  /\ [](packetQueue # << >> =>
          FollowsFrame(packetQueue[Len(packetQueue)],
                       [seq |-> rtpSequence, timestamp |-> rtpTimestamp]))
  /\ [][rtpTimestamp' # rtpTimestamp \/ rtpSequence' # rtpSequence
          => LET n == (rtpTimestamp' - rtpTimestamp) \div 160 IN
             /\ n >= 1
             /\ rtpTimestamp' = rtpTimestamp + 160 * n
             /\ rtpSequence' = (rtpSequence + n) % 65536
             /\ Len(packetQueue') = Len(packetQueue) + n
             /\ packetQueue'[Len(packetQueue) + 1] =
                  [seq |-> rtpSequence, timestamp |-> rtpTimestamp]]_vars

\* The sequence number has wrapped between two frames sent one after the
\* other.
C13_Witness ==
  \E i \in 1..(Len(sent) - 1) :
    /\ sent[i].seq = 65535
    /\ sent[i + 1].seq = 0
    /\ sent[i + 1].timestamp = sent[i].timestamp + 160

\* C14: audioBuffer is made of whole chunks and is never longer than
\* maxBufferSize; a writeAudio call leaves it as it is or appends one chunk.
C14_WholeChunksWithinCapacity ==
  /\ [](BufLen(audioBuffer) <= 640)
  /\ [](\A i \in 1..Len(audioBuffer) : audioBuffer[i].len = audioBuffer[i].of)
  /\ [][\/ audioBuffer' = audioBuffer
        \/ /\ Len(audioBuffer') = Len(audioBuffer) + 1
           /\ SubSeq(audioBuffer', 1, Len(audioBuffer)) = audioBuffer]_vars

\* A chunk has been refused by a buffer that holds chunks and has room left.
C14_Witness ==
  /\ lastCall = "writeAudio:false"
  /\ Len(audioBuffer) >= 2
  /\ BufLen(audioBuffer) = 560

\* The datagrams received while sipMap had the call.
PresentDatagrams == {i \in 1..Len(received) : received[i].present}

\* C15: channelData.rtpSource is the source of the first datagram received for
\* the session, it is never changed afterwards, and every frame sent once it is
\* recorded goes to it.
C15_LearnedSourceUsed ==
  /\ [](IF PresentDatagrams = {}
          THEN rtpSource = "none"
          ELSE rtpSource =
                 received[CHOOSE i \in PresentDatagrams :
                            \A j \in PresentDatagrams : i <= j].src)
  /\ [][rtpSource # "none" => rtpSource' = rtpSource]_vars
  /\ [](\A i \in 1..Len(sent) :
          sent[i].learned # "none"
            => sent[i].to = sent[i].learned /\ sent[i].learned = rtpSource)

\* A frame has been sent to a recorded source that is not the destination the
\* sender was made with, and a later datagram came from elsewhere.
C15_Witness ==
  /\ \E i \in 1..Len(sent) : sent[i].to = rtpSource /\ sent[i].to # DefaultDest
  /\ \E i \in 1..Len(received) : received[i].src # rtpSource

\* C16: a datagram is sent on the WebSocket only by the handler run for it,
\* and only if that run found the call in sipMap with channelData.ws its open
\* WebSocket; the datagrams not sent then are never sent.
C16_ForwardOnlyWhenReady ==
  /\ [](\A i \in 1..Len(forwarded) :
          /\ forwarded[i] \in 1..Len(received)
          /\ received[forwarded[i]].present
          /\ received[forwarded[i]].open)
  /\ [][forwarded' # forwarded
          => /\ Len(received') = Len(received) + 1
             /\ forwarded' = Append(forwarded, Len(received'))]_vars

\* One datagram was sent on and another, received when the WebSocket was not
\* open, was not.
C16_Witness ==
  /\ Len(received) = 2
  /\ Len(forwarded) = 1
  /\ \E i \in 1..2 : received[i].present /\ ~received[i].open


\* C17: a connection attempt of the call is its first, made by the setup, or
\* a reconnection made when the 1s timer set by an error fires while sipMap has
\* the call; at most maxRetries reconnections are ever scheduled.
C17_ReconnectBoundedWhileSessionExists ==
  /\ [](retryCount <= 3)
  /\ [](backoff => retryCount >= 1)
  /\ [][wsState' = "connecting" /\ wsState # "connecting"
          => \/ setup = "extMedia" /\ retryCount = 0
             \/ backoff /\ ~backoff' /\ inSipMap]_vars


\* C18: the timeout a waitForBufferEmpty call computes is the duration of
\* totalDeltaBytes at 8000 bytes/s plus 500ms, brought into 1000..6000.
C18_DynamicTimeoutClamped ==
  w.phase \in {"poll", "race"}
    => /\ w.dynamicTimeout >= 1000
       /\ w.dynamicTimeout <= 6000
       /\ w.dynamicTimeout =
            LET d == CeilMs(w.bytes) + 500 IN
            IF d < 1000 THEN 1000 ELSE IF d > 6000 THEN 6000 ELSE d

\* C19: a waitForBufferEmpty call has never gone on for longer than its
\* dynamic timeout, and it does not go on polling a queue that is not empty
\* once 'audioFinished' was emitted for the call.
C19_WaitEndsAtFinishedOrTimeout ==
  /\ w.phase # "none" => w.now <= w.dynamicTimeout
  /\ w.received /\ w.queued => w.phase = "done"


\* C20: encoding a sample to mu-law and decoding it again is idempotent: a
\* second pass gives the sample the first pass gave, for every signed 16-bit
\* sample, and for the sample every mu-law byte decodes to.
C20_RoundTripIdempotent == cv.stage = "twice" => cv.twice = cv.once

\* A sample the first pass changed has gone through the second pass.
C20_Witness ==
  /\ cv.stage = "twice"
  /\ cv.src = "sample"
  /\ cv.once # cv.x


\* C21: the sample a 16-bit sample comes back as after encoding to mu-law and
\* decoding is 0 or has the sample's sign, and is at most 1024 away from it.
C21_RoundTripWithinQuantization ==
  cv.stage = "once" /\ cv.src = "sample"
    => /\ cv.once = 0 \/ (cv.once > 0) = (cv.x > 0)
       /\ cv.once - cv.x <= 1024
       /\ cv.x - cv.once <= 1024

\* C22: downsampling what upsampling a non-empty buffer gave returns the
\* buffer, sample for sample.
C22_DownsampleUndoesUpsample ==
  cv.stage = "pcm8kAgain" => cv.twice = cv.x

\* A buffer of several samples went up and down, and upsampling put a mean
\* between two of its samples that is neither of them.
C22_Witness ==
  /\ cv.stage = "pcm8kAgain"
  /\ Len(cv.x) >= 2
  /\ cv.once[2] \notin {cv.x[1], cv.x[2]}


\* C23: while a teardown is at one of its steps before the removal of the
\* ticket (the transport wait, the telephony hangup, the bridge, the sender
\* socket, the receiver socket and the port), the session is still in sipMap.
C23_SessionRemovedLast ==
  \A k \in Callers :
    td[k] \in {"wsWait", "hangupWait", "bridgeWait", "senderWait", "recvWait"}
      => inSipMap


\* C24: when endStream has ended a playback with frames still in the queue,
\* an 'audioFinished' notification is emitted afterwards.
C24_EndedStillEmitsFinished == endOwed ~> ~endOwed


\* C25: close() has been called at most once on the sender's socket, exactly
\* once when endStream has run, whatever the number of endStream calls and
\* whether or not the teardown's sender step has run; and an endStream call on
\* a sender already ended changes nothing of the sender.
C25_SenderClosedOnce ==
  /\ [](senderCloses <= 1 /\ (isSocketClosed => senderCloses = 1))
  /\ [][isSocketClosed /\ EndStream
          => UNCHANGED <<rtpSequence, rtpTimestamp, packetQueue, intervalId,
                         isSocketClosed, totalPacketsSent, sendCbs, sent,
                         finished, discarded, senderSock, finishOwed,
                         audioBuffer, endOwed, closureAux>>]_vars

\* endStream has been called on a sender it had ended already, with frames
\* in the queue, and a teardown has gone past its sender step after it.
C25_Witness ==
  /\ lastCall = "endStream"
  /\ endOwed
  /\ senderCloses = 1
  /\ \E k \in Callers : td[k] = "done" /\ ~threw[k]
  /\ ~rtpSendersHas


\* C26: once endStream has marked the sender closed, no operation changes the
\* accumulation buffer or the queue, and no frame is handed to the socket.
C26_ClosedForGood ==
  [][isSocketClosed => /\ audioBuffer' = audioBuffer
                       /\ packetQueue' = packetQueue
                       /\ sent' = sent]_vars

\* C27: no sendAudioChunk submission of a call after its first has silence
\* prepended.
C27_SilenceOnFirstOnly ==
  \A i \in 2..Len(silenced) : ~silenced[i]


\* C28: the call has no earlier sender whose socket is still open or whose
\* interval is still set: at most one sender, at most one pacing timer.
C28_OneSenderOneTimer ==
  /\ orphans = 0
  /\ (IF intervalId THEN 1 ELSE 0) + Len(prev) <= 1

\* C29: once the call has a sender, its SSRC never changes, its timestamp
\* never goes back, and its sequence number changes only as frames are
\* enqueued.
C29_CountersNeverReset ==
  [][senderSock # "none"
       => /\ rtpSsrc' = rtpSsrc
          /\ rtpTimestamp' >= rtpTimestamp
          /\ (rtpTimestamp' = rtpTimestamp => rtpSequence' = rtpSequence)]_vars


\* C30: the queue never holds more frames than the accumulation buffer has
\* room for (640 bytes, 4 frames).
C30_QueueWithinBufferCapacity ==
  Len(packetQueue) * samplesPerPacket <= maxBufferSize


\* C34: an 'audioFinished' of another call emitted during a wait does not
\* keep the call's own 'audioFinished' from ending the wait: when one has been
\* emitted for the call during its wait, the wait's listener has received it
\* and the wait is not in Promise.race any more.
C34_OwnFinishedEndsWait ==
  w.ownEmitted => w.received /\ w.phase # "race"


\* C38: for every buffer of n >= 0 samples, the empty one included,
\* resample8to16 throws nothing and returns 2n samples: the input's sample i
\* at 2i, the rounded mean of samples i and i+1 at 2i+1 for i < n-1, and the
\* last sample again at 2n-1 (positions from 0).
C38_UpsampleTotalAndInterpolating ==
  cv.src = "pcm8k" /\ cv.stage # "pcm8k"
    => /\ cv.stage # "RangeError"
       /\ Len(cv.once) = 2 * Len(cv.x)
       /\ \A i \in 0..(Len(cv.x) - 1) :
            /\ cv.once[2 * i + 1] = cv.x[i + 1]
            /\ cv.once[2 * i + 2] =
                 IF i < Len(cv.x) - 1
                   THEN RoundHalf(cv.x[i + 1] + cv.x[i + 2])
                   ELSE cv.x[Len(cv.x)]


\* C39: nothing takes bytes out of the audioBuffer of the call's sender: its
\* length never goes down, and once it holds maxBufferSize bytes it stays as
\* it is, whatever is written and whatever the queue does.
C39_BufferNeverDrains ==
  /\ [][BufLen(audioBuffer') >= BufLen(audioBuffer)]_vars
  /\ [][BufLen(audioBuffer) = maxBufferSize => audioBuffer' = audioBuffer]_vars


\* C40: when a teardown has finished, cleanupPromises holds neither its
\* ticket for the call nor its 'ws_' ticket, whichever way it went.
C40_NoTicketOutlivesTeardown ==
  \A k \in Callers : td[k] = "done" => ticket # k /\ wsTicket # k


\* C32: a WebSocket error that finds the retries used up is fatal for the
\* call: by the end of the error handler's step cleanupChannel has been called
\* for the call, also when an earlier WebSocket of the call had opened.
C32_RetriesExhaustedIsFatal ==
  [][wsState # "errored" /\ wsState' = "errored" /\ retryCount >= maxRetries
       => \E j \in Callers : cl'[j] \in {"own", "await", "done"}]_vars


\* C31: no datagram's payload is sent on a WebSocket that has not delivered
\* the provider's answer to the configuration message, under either provider.
C31_RelayOnlyAfterHandshakeAck ==
  \A i \in 1..Len(forwarded) : received[forwarded[i]].acked


\* C35: once a teardown of the call has completed no timer of the call is
\* active: no pacing interval of a sender of the call, not the message
\* interval, no reconnect timer and not the call-duration timer.
C35_NoTimerAfterTeardown ==
  (\E k \in Callers : td[k] = "done")
    => /\ ~intervalId /\ prev = << >>
       /\ ~msgTick
       /\ ~backoff
       /\ ~callTimer


\* C36: when the polling for the mapping of the call's ExternalMedia channel
\* ends without one, the call's setup is over and cleanupChannel has been
\* called for the call by the end of that step.
C36_MissingMappingAbortsCall ==
  [][ext.st = "polling" /\ ext'.st = "gaveUp"
       => /\ setup' = "ended"
          /\ \E j \in Callers : cl'[j] \in {"own", "await", "done"}]_vars


\* The steps taken are the first steps of SetupOrder, in its order.
InSetupOrder == steps = SubSeq(SetupOrder, 1, Len(steps))

\* C37: the steps of a call's setup are taken in the order port, receiver,
\* registration in sipMap, externalMedia returned, WebSocket created, sender
\* constructed: nothing of a step exists before the steps ahead of it are
\* taken, the WebSocket is created only once externalMedia has returned, and a
\* setup that ends after the registration without a sender constructed has
\* called cleanupChannel.
C37_SetupInOrder ==
  /\ [](/\ InSetupOrder
        /\ (Len(steps) < 1 => rtpPort = 0)
        /\ (Len(steps) < 2 => ~rtpReceiversHas /\ ~recvCb)
        /\ (Len(steps) < 3 => ~inSipMap)
        /\ (Len(steps) < 4 => ~extMapHas)
        /\ (Len(steps) < 5 => wsState = "none" /\ ~msgTick)
        /\ (Len(steps) < 6 => ~hasHandler /\ senderSock = "none"))
  /\ [][(wsState = "none" /\ wsState' # "none")
          => (setup = "extMedia" /\ steps' = SubSeq(SetupOrder, 1, 5))]_vars
  /\ [][(setup # "ended" /\ setup' = "ended"
           /\ Len(steps') >= 3 /\ steps' # SetupOrder)
          => cl'["setup"] \in {"own", "await", "done"}]_vars

\* A setup has gone through all its steps and no cleanup has been called.
C37_Witness ==
  /\ steps = SetupOrder
  /\ setup = "ended"
  /\ inSipMap /\ rtpReceiversHas /\ extMapHas
  /\ wsState = "open" /\ hasHandler /\ senderSock = "open"
  /\ \A j \in Callers : cl[j] = "idle"


\* The messages the queue holds and those processMessage was called with, by
\* arrival number.
Queued == {mq.queue[i].n : i \in 1..Len(mq.queue)}

Processed == {mq.done[i] : i \in 1..Len(mq.done)}

\* The call's state as processMessage can change it.
CallState == <<inSipMap, wsState, wsClosed, cdWs, setupComplete>>

\* C33: the 'message' handler processes nothing: it only appends the
\* arrived message to the queue; the
\* interval's callback calls processMessage with the first messages of the
\* queue, in their order and at most maxMessages of them, so that messages
\* are processed in the order of their arrival; and a queued message is
\* processed in the end.
C33_QueuedThenProcessedInOrder ==
  /\ [][mq'.arrived # mq.arrived
          => /\ mq'.arrived = mq.arrived + 1
             /\ mq'.done = mq.done
             /\ CallState' = CallState
             /\ \E m \in {"delta", "error"} :
                  mq'.queue = Append(mq.queue, [n |-> mq'.arrived, m |-> m])]_vars
  /\ [][mq'.done # mq.done
          => /\ mq'.arrived = mq.arrived
             /\ \E k \in 1..maxMessages :
                  /\ k <= Len(mq.queue)
                  /\ mq'.done = mq.done
                                  \o [i \in 1..k |-> mq.queue[i].n]
                  /\ mq'.queue = SubSeq(mq.queue, k + 1, Len(mq.queue))]_vars
  /\ [](\A i, j \in 1..Len(mq.done) : i < j => mq.done[i] < mq.done[j])
  /\ \A n \in 1..MaxArrivals : (n \in Queued) ~> (n \in Processed)

\* A callback that found more than maxMessages messages queued has processed
\* the first maxMessages of them and left the others.
C33_Witness ==
  /\ mq.batch = maxMessages
  /\ mq.done = [i \in 1..maxMessages |-> i]
  /\ mq.queue # << >>
  /\ Head(mq.queue).n = maxMessages + 1

(***************************************************************************)
(* Claims about the port pool                                              *)
(***************************************************************************)
\* Call c's setup ran getNextRtpPort in this step.
PortAcquired(c) == pSess[c].st = "none" /\ pSess'[c].st = "live"

\* The ports of the form start + 2k the calls of the model can be given.
PortGrid == {RTP_PORT_START + 2 * k : k \in 0..(MaxPortCalls + 1)}

\* The live calls whose RTP port is p.
LiveOn(p) == {c \in PortCalls : pSess[c].st = "live" /\ pSess[c].port = p}

\* C7: a port returned while fewer than MAX_CONCURRENT_CALLS ports are held is
\* the port of no live call, and two live calls have the same port only if one
\* of them got it from a force-reclaiming getNextRtpPort.
C7_PortNeverShared ==
  /\ [][\A c \in PortCalls :
          (PortAcquired(c) /\ Cardinality(usedRtpPorts) < MAX_CONCURRENT_CALLS)
             => LiveOn(pSess'[c].port) = {}]_portVars
  /\ [](\A a, b \in PortCalls :
          (a # b /\ pSess[a].st = "live" /\ pSess[b].st = "live"
                 /\ pSess[a].port = pSess[b].port)
             => (pSess[a].forced \/ pSess[b].forced))

\* C8: with MAX_CONCURRENT_CALLS ports held, getNextRtpPort returns the
\* smallest held port, a port some call was given and has not released (not a
\* fresh one), and takes it out of the held set.
C8_ForcedReuseSmallestHeld ==
  [][\A c \in PortCalls :
       (PortAcquired(c) /\ Cardinality(usedRtpPorts) = MAX_CONCURRENT_CALLS)
          => /\ pSess'[c].port \in usedRtpPorts
             /\ \A q \in usedRtpPorts : pSess'[c].port <= q
             /\ usedRtpPorts' = usedRtpPorts \ {pSess'[c].port}
             /\ \E d \in PortCalls \ {c} :
                  pSess[d].held /\ pSess[d].port = pSess'[c].port]_portVars

\* Some live call got its port from the reuse branch, with another call on it.
C8_Witness ==
  \E c, d \in PortCalls :
    /\ c # d
    /\ pSess[c].st = "live" /\ pSess[c].forced
    /\ pSess[d].held /\ pSess[d].port = pSess[c].port

\* C9: with fewer than MAX_CONCURRENT_CALLS ports held, getNextRtpPort returns
\* the smallest port start + 2k that is not held, and adds it to the held set.
C9_FirstFreePort ==
  [][\A c \in PortCalls :
       (PortAcquired(c) /\ Cardinality(usedRtpPorts) < MAX_CONCURRENT_CALLS)
          => /\ pSess'[c].port \in PortGrid \ usedRtpPorts
             /\ \A q \in PortGrid : q < pSess'[c].port => q \in usedRtpPorts
             /\ usedRtpPorts' = usedRtpPorts \cup {pSess'[c].port}]_portVars

\* A call was given a port above the start port by the scan: the start port
\* was held and fewer than the maximum were.
C9_Witness ==
  \E c \in PortCalls :
    /\ pSess[c].st = "live" /\ ~pSess[c].forced
    /\ pSess[c].port = RTP_PORT_START + 2
    /\ RTP_PORT_START \in usedRtpPorts

(***************************************************************************)
(* Claims about the sender                                                 *)
(***************************************************************************)
\* C10: stopPlayback takes effect before any further frame is sent: no frame
\* that was queued when stopPlayback was called is ever handed to the socket,
\* and on its return the queue is empty and the pacing interval is cleared.
C10_StopPlaybackImmediate ==
  /\ \A i \in 1..Len(sent) : sent[i].timestamp \notin discarded
  /\ lastCall = "stopPlayback" => (packetQueue = << >> /\ ~intervalId)

\* stopPlayback dropped queued frames in mid-playback and frames enqueued later
\* have been sent since.
C10_Witness ==
  /\ discarded # {}
  /\ \E i, j \in 1..Len(sent) :
       \E d \in discarded : sent[i].timestamp < d /\ d < sent[j].timestamp

====
